---- MODULE Spec2Model ----
(***************************************************************************)
(* A model of the XQuery-to-MongoDB CRUD converter of src/conversion.py    *)
(* (class XQueryToMongoCRUDConverter and the batch driver main) and of     *)
(* convert_xquery_to_mongo of src/xquery_to_mongo.py.                      *)
(*                                                                         *)
(* Text.  A Python string is modelled as a sequence of symbols.  A symbol  *)
(* is a TLA+ string standing for either one punctuation character, one     *)
(* blank, or one maximal run of word characters (\w+, e.g. "age", "18").   *)
(* Regular expressions of the source are translated symbol by symbol, so   *)
(* a character class such as [^/\s]+ may run over several symbols exactly  *)
(* as it runs over several characters in the source.                       *)
(*                                                                         *)
(* Values.  A Python value is a pair <<tag, payload>>:                     *)
(*   <<"str", symbols>>   <<"int", symbols>>   <<"float", symbols>>        *)
(*   <<"bool", symbols>>  <<"null", <<>>>>     <<"arr", values>>           *)
(*   <<"obj", pairs>>  with pairs a sequence of <<key symbols, value>>,    *)
(* in insertion order (a Python dict).                                     *)
(* The outcome of a call is <<"ok", value>> or <<"err", <<kind>>>>.        *)
(***************************************************************************)
EXTENDS Integers, Sequences, FiniteSets, TLC

(***************************************************************************)
(* Symbols and character classes                                           *)
(***************************************************************************)
SP == " "
DQ == "\""
SQ == "'"

\* \s
IsSpace(c) == c = SP

\* characters that are not \w and not \s
Punct ==
  {"{", "}", "[", "]", "(", ")", ",", ":", DQ, SQ, "/", "=", "!", ">", "<",
   ".", "$", "-", "+", "#", "?", "@", "^", "\\"}

\* a run of \w characters
IsWord(c) == c \notin Punct /\ c # SP

\* the runs of digits of the inputs: <<value, number of characters>>
DigitTable ==
  [w \in {"0", "1", "2", "3", "5", "7", "18", "30", "50", "05", "007",
          "00001", "000015"} |->
     CASE w = "0" -> <<0, 1>> [] w = "1" -> <<1, 1>> [] w = "2" -> <<2, 1>>
       [] w = "3" -> <<3, 1>> [] w = "5" -> <<5, 1>> [] w = "7" -> <<7, 1>>
       [] w = "18" -> <<18, 2>> [] w = "30" -> <<30, 2>>
       [] w = "50" -> <<50, 2>> [] w = "05" -> <<5, 2>>
       [] w = "007" -> <<7, 3>> [] w = "00001" -> <<1, 5>>
       [] w = "000015" -> <<15, 6>>]

\* str.isdigit() of a run of word characters
DigitWords == DOMAIN DigitTable

\* the run of len digits with the value n
DigitWord(n, len) == CHOOSE w \in DigitWords : DigitTable[w] = <<n, len>>

\* the runs of digits that end in the letter e, of the exponent notation
ExpTable ==
  [w \in {"1e", "5e"} |-> CASE w = "1e" -> <<1, 1>> [] w = "5e" -> <<5, 1>>]
ExpWord(n, len) == CHOOSE w \in DOMAIN ExpTable : ExpTable[w] = <<n, len>>

RECURSIVE Pow10(_)
Pow10(n) == IF n = 0 THEN 1 ELSE 10 * Pow10(n - 1)

\* the number of decimal digits of a natural number
RECURSIVE NumDigits(_)
NumDigits(n) == IF n < 10 THEN 1 ELSE 1 + NumDigits(n \div 10)

\* int(w) of a run of digits, as the text str() gives for it
int(w) ==
  LET Text(n) == DigitWord(n, NumDigits(n)) IN <<Text(DigitTable[w][1])>>

\* num / 10^scale without the trailing zeros of the fraction
RECURSIVE DropZeros(_, _)
DropZeros(num, scale) ==
  IF scale > 0 /\ num % 10 = 0 THEN DropZeros(num \div 10, scale - 1)
  ELSE <<num, scale>>

\* repr of the float num / 10^scale (num has no trailing zero unless
\* scale = 0): fixed notation for a decimal exponent in -4..15, exponent
\* notation otherwise
FloatRepr(num, scale) ==
  LET Fixed(ip, fp) ==
        <<DigitWord(ip, NumDigits(ip)), ".",
          IF scale = 0 THEN "0" ELSE DigitWord(fp, scale)>>
      Exponent(k, e, sign) ==
        LET Mantissa(d1, rest) ==
              IF k = 1 THEN <<ExpWord(d1, 1)>>
              ELSE <<DigitWord(d1, 1), ".", ExpWord(rest, k - 1)>>
        IN Mantissa(num \div Pow10(k - 1), num % Pow10(k - 1))
             \o <<sign, DigitWord(e, IF e < 10 THEN 2 ELSE NumDigits(e))>>
      Notation(k, e) ==
        IF e < -4 THEN Exponent(k, -e, "-")
        ELSE IF e >= 16 THEN Exponent(k, e, "+")
        ELSE Fixed(num \div Pow10(scale), num % Pow10(scale))
  IN IF num = 0 THEN <<"0", ".", "0">>
     ELSE Notation(NumDigits(num), NumDigits(num) - 1 - scale)

\* float(i.f) of two runs of digits, as the text repr() gives for it
float(i, f) ==
  LET Repr(s) == FloatRepr(s[1], s[2])
      Value(fl) ==
        DropZeros(DigitTable[i][1] * Pow10(fl) + DigitTable[f][1], fl)
  IN Repr(Value(DigitTable[f][2]))

\* str.lower() of a run of word characters; the inputs hold no other word
\* with capitals that a keyword is compared with
Lower(c) ==
  CASE c \in {"TRUE", "True"} -> "true"
    [] c \in {"FALSE", "False"} -> "false"
    [] c \in {"NULL", "Null"} -> "null"
    [] c \in {"NONE", "None"} -> "none"
    [] c = "INSERT" -> "insert"
    [] c = "NODE" -> "node"
    [] c = "WHERE" -> "where"
    [] c = "IN" -> "in"
    [] c \in {"COLLECTION", "Collection"} -> "collection"
    [] c = "DB" -> "db"
    [] c = "FIND" -> "find"
    [] c = "FOR" -> "for"
    [] c = "AND" -> "and"
    [] c = "DESCENDING" -> "descending"
    [] c = "ASCENDING" -> "ascending"
    [] OTHER -> c

(***************************************************************************)
(* Generic string helpers                                                  *)
(***************************************************************************)
Min(S) == CHOOSE x \in S : \A y \in S : x <= y
Max(S) == CHOOSE x \in S : \A y \in S : x >= y

\* s[i:] (1-based i)
From(s, i) == SubSeq(s, i, Len(s))

\* s.startswith(p) at offset i
MatchAt(s, i, p) ==
  /\ i >= 1
  /\ i + Len(p) - 1 <= Len(s)
  /\ \A k \in 1..Len(p) : s[i + k - 1] = p[k]

\* position after a greedy \s* that starts at i
RECURSIVE SkipSp(_, _)
SkipSp(s, i) == IF i <= Len(s) /\ IsSpace(s[i]) THEN SkipSp(s, i + 1) ELSE i

\* str.strip(chars)
RECURSIVE LStripSet(_, _)
LStripSet(s, cs) ==
  IF s # <<>> /\ Head(s) \in cs THEN LStripSet(Tail(s), cs) ELSE s
RECURSIVE RStripSet(_, _)
RStripSet(s, cs) ==
  IF s # <<>> /\ s[Len(s)] \in cs
  THEN RStripSet(SubSeq(s, 1, Len(s) - 1), cs)
  ELSE s
StripSet(s, cs) == RStripSet(LStripSet(s, cs), cs)
Strip(s) == StripSet(s, {SP})

\* str.replace of one character by another
Replace(s, a, b) == [i \in 1..Len(s) |-> IF s[i] = a THEN b ELSE s[i]]

\* concatenation of a sequence of sequences
RECURSIVE Flatten(_)
Flatten(ss) == IF ss = <<>> THEN <<>> ELSE Head(ss) \o Flatten(Tail(ss))

(***************************************************************************)
(* Python values and dicts                                                 *)
(***************************************************************************)
VStr(s) == <<"str", s>>
VInt(s) == <<"int", s>>
VFloat(s) == <<"float", s>>
VBool(s) == <<"bool", s>>
VNull == <<"null", <<>>>>
VArr(vs) == <<"arr", vs>>
VObj(ps) == <<"obj", ps>>
EmptyObj == VObj(<<>>)

Ok(v) == <<"ok", v>>
Err(kind) == <<"err", <<kind>>>>
IsOk(r) == r[1] = "ok"
IsErr(r) == r[1] = "err"

IsObj(v) == v[1] = "obj"
IsStrV(v) == v[1] = "str"

\* keys of a dict, in order
Keys(o) == [i \in 1..Len(o[2]) |-> o[2][i][1]]
KeySet(o) == {o[2][i][1] : i \in 1..Len(o[2])}
HasKey(o, k) == k \in KeySet(o)
\* d[k]
Get(o, k) == o[2][CHOOSE i \in 1..Len(o[2]) : o[2][i][1] = k][2]

\* d[k] = v : an existing key keeps its place, a new key goes last
Put(o, k, v) ==
  IF HasKey(o, k)
  THEN VObj([i \in 1..Len(o[2]) |->
              IF o[2][i][1] = k THEN <<k, v>> ELSE o[2][i]])
  ELSE VObj(Append(o[2], <<k, v>>))

\* d.update(e)
RECURSIVE PutAll(_, _)
PutAll(o, ps) ==
  IF ps = <<>> THEN o ELSE PutAll(Put(o, Head(ps)[1], Head(ps)[2]), Tail(ps))
Update(o, e) == PutAll(o, e[2])

(***************************************************************************)
(* json.loads: a recursive-descent reading of the JSON grammar.  A parse   *)
(* step returns <<"ok", value, next position>> or NoParse.                 *)
(***************************************************************************)
NoParse == <<"no", <<>>, 0>>

\* index of the first occurrence of character c at or after i, 0 if none
RECURSIVE IndexFrom(_, _, _)
IndexFrom(s, c, i) ==
  IF i > Len(s) THEN 0
  ELSE IF s[i] = c THEN i
  ELSE IndexFrom(s, c, i + 1)

\* a JSON string starting at the quote s[i] (the model has no escapes:
\* a backslash inside a string is refused)
JString(s, i) ==
  IF i > Len(s) \/ s[i] # DQ THEN NoParse
  ELSE LET j == IndexFrom(s, DQ, i + 1) IN
       IF j = 0 \/ \E k \in (i + 1)..(j - 1) : s[k] = "\\" THEN NoParse
       ELSE <<"ok", VStr(SubSeq(s, i + 1, j - 1)), j + 1>>

\* a JSON number starting at s[i]
JNumber(s, i) ==
  LET neg == i <= Len(s) /\ s[i] = "-"
      d == IF neg THEN i + 1 ELSE i
  IN IF d > Len(s) \/ s[d] \notin DigitWords THEN NoParse
     ELSE IF d + 2 <= Len(s) /\ s[d + 1] = "." /\ s[d + 2] \in DigitWords
     THEN <<"ok", VFloat(SubSeq(s, i, d + 2)), d + 3>>
     ELSE <<"ok", VInt(SubSeq(s, i, d)), d + 1>>

RECURSIVE JValue(_, _)
RECURSIVE JMembers(_, _, _)
RECURSIVE JElems(_, _, _)

\* the members of an object, s[i] is the quote of the next key
JMembers(s, i, acc) ==
  LET k == JString(s, i) IN
  IF k[1] # "ok" THEN NoParse
  ELSE LET c == SkipSp(s, k[3]) IN
       IF c > Len(s) \/ s[c] # ":" THEN NoParse
       ELSE LET v == JValue(s, SkipSp(s, c + 1)) IN
            IF v[1] # "ok" THEN NoParse
            ELSE LET e == SkipSp(s, v[3])
                     acc2 == Put(acc, k[2][2], v[2])
                 IN IF e > Len(s) THEN NoParse
                    ELSE IF s[e] = "}" THEN <<"ok", acc2, e + 1>>
                    ELSE IF s[e] = "," THEN JMembers(s, SkipSp(s, e + 1), acc2)
                    ELSE NoParse

\* the elements of an array, s[i] starts the next element
JElems(s, i, acc) ==
  LET v == JValue(s, i) IN
  IF v[1] # "ok" THEN NoParse
  ELSE LET e == SkipSp(s, v[3])
           acc2 == Append(acc, v[2])
       IN IF e > Len(s) THEN NoParse
          ELSE IF s[e] = "]" THEN <<"ok", VArr(acc2), e + 1>>
          ELSE IF s[e] = "," THEN JElems(s, SkipSp(s, e + 1), acc2)
          ELSE NoParse

JValue(s, i) ==
  IF i > Len(s) THEN NoParse
  ELSE CASE s[i] = "{" ->
              LET j == SkipSp(s, i + 1) IN
              IF j <= Len(s) /\ s[j] = "}" THEN <<"ok", EmptyObj, j + 1>>
              ELSE JMembers(s, j, EmptyObj)
         [] s[i] = "[" ->
              LET j == SkipSp(s, i + 1) IN
              IF j <= Len(s) /\ s[j] = "]" THEN <<"ok", VArr(<<>>), j + 1>>
              ELSE JElems(s, j, <<>>)
         [] s[i] = DQ -> JString(s, i)
         [] s[i] = "true" -> <<"ok", VBool(<<"true">>), i + 1>>
         [] s[i] = "false" -> <<"ok", VBool(<<"false">>), i + 1>>
         [] s[i] = "null" -> <<"ok", VNull, i + 1>>
         [] OTHER -> JNumber(s, i)

\* json.loads(s): Ok(value), or JSONDecodeError
JSONDecodeError == Err("JSONDecodeError")
json_loads(s) ==
  LET Whole(v) ==
        IF v[1] = "ok" /\ SkipSp(s, v[3]) = Len(s) + 1 THEN Ok(v[2])
        ELSE JSONDecodeError
  IN Whole(JValue(s, SkipSp(s, 1)))

\* re.sub(r',\s*X', 'X', s) for a closing bracket X: every comma that is
\* followed by blanks and X is dropped together with the blanks
RECURSIVE SubTrailingComma(_, _)
SubTrailingComma(s, x) ==
  IF s = <<>> THEN <<>>
  ELSE IF Head(s) = "," /\ LET j == SkipSp(s, 2) IN j <= Len(s) /\ s[j] = x
  THEN <<x>> \o SubTrailingComma(From(s, SkipSp(s, 2) + 1), x)
  ELSE <<Head(s)>> \o SubTrailingComma(Tail(s), x)

(***************************************************************************)
(* Value Resolver and Path Resolver                                        *)
(***************************************************************************)
\* _parse_value with the boolean keywords compared in lower case only
ValueCaseSensitive(value_str) ==
  LET v == Strip(value_str)
      n == Len(v)
  IN IF n >= 1 /\ ((v[1] = DQ /\ v[n] = DQ) \/ (v[1] = SQ /\ v[n] = SQ))
     THEN VStr(SubSeq(v, 2, n - 1))
     ELSE IF n = 1 /\ v[1] \in DigitWords THEN VInt(int(v[1]))
     ELSE IF n = 3 /\ v[1] \in DigitWords /\ v[2] = "." /\ v[3] \in DigitWords
     THEN VFloat(float(v[1], v[3]))
     ELSE IF n = 1 /\ v[1] \in {"true", "false"} THEN VBool(<<v[1]>>)
     ELSE IF n = 1 /\ Lower(v[1]) \in {"null", "none"} THEN VNull
     ELSE VStr(v)

\* _parse_value(value_str)
_parse_value(value_str) ==
  LET v == Strip(value_str)
      n == Len(v)
  IN IF n >= 1 /\ ((v[1] = DQ /\ v[n] = DQ) \/ (v[1] = SQ /\ v[n] = SQ))
     THEN VStr(SubSeq(v, 2, n - 1))
     ELSE IF n = 1 /\ v[1] \in DigitWords THEN VInt(int(v[1]))
     ELSE IF n = 3 /\ v[1] \in DigitWords /\ v[2] = "." /\ v[3] \in DigitWords
     THEN VFloat(float(v[1], v[3]))
     ELSE IF n = 1 /\ Lower(v[1]) \in {"true", "false"}
     THEN VBool(<<Lower(v[1])>>)
     ELSE IF n = 1 /\ Lower(v[1]) \in {"null", "none"} THEN VNull
     ELSE VStr(v)

\* _parse_path with every path resolved to the identifier field
PathToId(path, context_var) == <<"_id">>

\* _parse_path without the branches on the context variable
PathUnresolved(path, context_var) == Replace(path, "/", ".")

\* _parse_path(path, context_var): never fails
_parse_path(path, context_var) ==
  IF MatchAt(path, 1, <<"$", context_var, "/">>)
  THEN Replace(From(path, 4), "/", ".")
  ELSE IF path = <<"$", context_var>> THEN <<"_id">>
  ELSE Replace(path, "/", ".")

(***************************************************************************)
(* The regular expressions of _parse_single_condition.  A match is a pair  *)
(* <<group 1, group 2>>; NoMatch is the empty tuple.  A tail operator      *)
(* T(s, p) matches what follows the path group from position p on and      *)
(* returns <<group 2>>, or <<>> when it does not match.                    *)
(***************************************************************************)
NoMatch == <<>>

\* re.search tries the start positions from left to right: the first match
\* among the matches ms at the positions, or NoMatch
Leftmost(ms) ==
  LET ok == {k \in DOMAIN ms : ms[k] # <<>>} IN
  IF ok = {} THEN <<>> ELSE ms[Min(ok)]

\* the match of largest index among the matches ms, or NoMatch
Longest(ms) ==
  LET ok == {k \in DOMAIN ms : ms[k] # <<>>} IN
  IF ok = {} THEN <<>> ELSE ms[Max(ok)]

\* last index of the run [^bad]* that starts at j (j - 1 when empty)
RECURSIVE RunEndNot(_, _, _)
RunEndNot(s, j, bad) ==
  IF j <= Len(s) /\ s[j] \notin bad THEN RunEndNot(s, j + 1, bad) ELSE j - 1

\* last index of the run [^bad\s]* that starts at j (j - 1 when empty)
RunEnd(s, j, bad) == RunEndNot(s, j, bad \cup {SP})

\* the end positions of (?:/[^bad\s]+)* continued after the end position e
RECURSIVE PathEndsFrom(_, _, _)
PathEndsFrom(s, e, bad) ==
  IF e + 1 <= Len(s) /\ s[e + 1] = "/" /\ RunEnd(s, e + 2, bad) >= e + 2
  THEN {e} \cup ((e + 2)..RunEnd(s, e + 2, bad))
           \cup PathEndsFrom(s, RunEnd(s, e + 2, bad), bad)
  ELSE {e}

\* the end positions of \$\w+(?:/[^bad\s]+)* matched at i ({} if no match)
PathEnds(s, i, bad) ==
  IF i + 1 <= Len(s) /\ s[i] = "$" /\ IsWord(s[i + 1])
  THEN PathEndsFrom(s, i + 1, bad)
  ELSE {}

\* (PATH)TAIL anchored at i: the path is as long as the tail allows (greedy)
PathAt(s, i, bad, T(_, _)) ==
  LET Group(e, t) == IF t = <<>> THEN NoMatch ELSE <<SubSeq(s, i, e), t[1]>>
  IN Longest([e \in PathEnds(s, i, bad) |-> Group(e, T(s, e + 1))])

\* re.search of (PATH)TAIL: the leftmost start that matches
PathSearch(s, bad, T(_, _)) ==
  Leftmost([i \in 1..Len(s) |-> PathAt(s, i, bad, T)])

\* \s*OP\s*(.+) for an operator OP written with punctuation
TailSym(s, p, op) ==
  LET q == SkipSp(s, p) IN
  IF MatchAt(s, q, op) /\ q + Len(op) <= Len(s)
  THEN <<Strip(From(s, q + Len(op)))>>
  ELSE <<>>

\* \s+KW\s+(.+) for an operator written as the keyword KW
TailKw(s, p, kw) ==
  LET q == SkipSp(s, p) IN
  IF q > p /\ q + 2 <= Len(s) /\ s[q] = kw /\ IsSpace(s[q + 1])
  THEN <<Strip(From(s, q + 1))>>
  ELSE <<>>

\* \s*,\s*(.+?)\s*\)
TailArg(s, p) ==
  LET q == SkipSp(s, p)
      v == SkipSp(s, q + 1)
      j == IndexFrom(s, ")", v + 1)
  IN IF q > Len(s) \/ s[q] # "," THEN <<>>
     ELSE IF v <= Len(s) /\ j # 0 THEN <<Strip(SubSeq(s, v, j - 1))>>
     ELSE IF v > q + 1 /\ v <= Len(s) /\ s[v] = ")" THEN <<<<>>>>
     ELSE <<>>

\* \s*\)
TailClose(s, p) ==
  LET q == SkipSp(s, p) IN
  IF q <= Len(s) /\ s[q] = ")" THEN <<<<>>>> ELSE <<>>

\* \s*\)\s*\)
TailClose2(s, p) ==
  LET q == SkipSp(s, p)
      r == SkipSp(s, q + 1)
  IN IF q <= Len(s) /\ s[q] = ")" /\ r <= Len(s) /\ s[r] = ")"
     THEN <<<<>>>> ELSE <<>>

\* NAME\s*\(\s* matched at k: the position that follows, 0 if no match
CallOpen(s, k, name) ==
  LET q == SkipSp(s, k + Len(name)) IN
  IF MatchAt(s, k, name) /\ q <= Len(s) /\ s[q] = "("
  THEN SkipSp(s, q + 1)
  ELSE 0

\* re.search of NAME\s*\(\s*(PATH)TAIL
CallSearch(s, name, bad, T(_, _)) ==
  LET at(o) == IF o = 0 THEN NoMatch ELSE PathAt(s, o, bad, T)
  IN Leftmost([k \in 1..Len(s) |-> at(CallOpen(s, k, name))])

\* re.search of not\s*\(\s*exists\s*\(\s*(PATH)\s*\)\s*\)
NotExistsSearch(s) ==
  LET inner(o) == IF o = 0 THEN 0 ELSE CallOpen(s, o, <<"exists">>)
      at(o) == IF o = 0 THEN NoMatch ELSE PathAt(s, o, {"/"}, TailClose2)
  IN Leftmost([k \in 1..Len(s) |-> at(inner(CallOpen(s, k, <<"not">>)))])

\* re.escape
ReSpecial ==
  {"{", "}", "[", "]", "(", ")", ".", "$", "-", "#", "?", "^", "\\", SP}
ReEscape(s) ==
  Flatten([i \in 1..Len(s) |->
             IF s[i] \in ReSpecial THEN <<"\\", s[i]>> ELSE <<s[i]>>])

\* A or B of two re.search results
OrElse(a, b) == IF a # NoMatch THEN a ELSE b

\* the two spellings of a comparison: PATH\s*OP\s*(.+) or PATH\s+KW\s+(.+)
CmpSearch(s, op, kw) ==
  LET Sym(t, p) == TailSym(t, p, op)
      Kw(t, p) == TailKw(t, p, kw)
  IN OrElse(PathSearch(s, {"/"}, Sym), PathSearch(s, {"/"}, Kw))

(***************************************************************************)
(* Predicate Engine: one condition fragment                                *)
(***************************************************************************)
UnsupportedCondition == "Unsupported condition"
StringOperandOnly == "operator can only be used with strings"

\* {field: value}
Entry(field, value) == VObj(<< <<field, value>> >>)
\* {field: {"$op": value}}
OpEntry(field, op, value) == Entry(field, Entry(<<"$", op>>, value))
\* {field: {"$regex": pattern, "$options": "i"}}
RegexEntry(field, pattern) ==
  Entry(field, VObj(<< <<<<"$", "regex">>, VStr(pattern)>>,
                       <<<<"$", "options">>, VStr(<<"i">>)>> >>))

\* _parse_single_condition(condition, context_var)
_parse_single_condition(condition, context_var) ==
  LET c == StripSet(condition, {"(", ")"})
      field(m) == _parse_path(Strip(m[1]), context_var)
      value(m) == _parse_value(m[2])
      \* the branches of the if/elif chain: what a match m gives, and the
      \* rest of the chain when the expression did not match
      Equal(m, rest) ==
        IF m # NoMatch THEN Ok(Entry(field(m), value(m))) ELSE rest
      Compare(m, op, rest) ==
        IF m # NoMatch THEN Ok(OpEntry(field(m), op, value(m))) ELSE rest
      Pattern(f, v, before, after) ==
        IF IsStrV(v) THEN Ok(RegexEntry(f, before \o v[2] \o after))
        ELSE Err(StringOperandOnly)
      Escaped(v) == IF IsStrV(v) THEN VStr(ReEscape(v[2])) ELSE v
      Contains(m, rest) ==
        IF m # NoMatch THEN Pattern(field(m), value(m), <<>>, <<>>) ELSE rest
      Anchored(m, before, after, rest) ==
        IF m # NoMatch
        THEN Pattern(field(m), Escaped(value(m)), before, after)
        ELSE rest
      Exists(m, flag, rest) ==
        IF m # NoMatch THEN Ok(OpEntry(field(m), "exists", VBool(<<flag>>)))
        ELSE rest
  IN Equal(CmpSearch(c, <<"=">>, "eq"),
     Compare(CmpSearch(c, <<"!", "=">>, "ne"), "ne",
     Compare(CmpSearch(c, <<">">>, "gt"), "gt",
     Compare(CmpSearch(c, <<">", "=">>, "ge"), "gte",
     Compare(CmpSearch(c, <<"<">>, "lt"), "lt",
     Compare(CmpSearch(c, <<"<", "=">>, "le"), "lte",
     Contains(CallSearch(c, <<"contains">>, {"/", ","}, TailArg),
     Anchored(CallSearch(c, <<"starts", "-", "with">>, {"/", ","}, TailArg),
              <<"^">>, <<>>,
     Anchored(CallSearch(c, <<"ends", "-", "with">>, {"/", ","}, TailArg),
              <<>>, <<"$">>,
     Exists(CallSearch(c, <<"exists">>, {"/"}, TailClose), "true",
     Exists(NotExistsSearch(c), "false",
     Err(UnsupportedCondition))))))))))))

(***************************************************************************)
(* Predicate Engine: the condition clause.  _parse_where_clause is called  *)
(* by the statement parsers but its body is not part of the source; it is  *)
(* modelled from the specification: the clause is split on the conjunction *)
(* marker `and`, each fragment is parsed by _parse_single_condition and    *)
(* the entries are merged left to right.                                   *)
(***************************************************************************)
\* re.split(r'\s+and\s+', clause): the fragments, in order
RECURSIVE SplitAnd(_)
SplitAnd(s) ==
  LET isAnd(p) == /\ IsSpace(s[p])
                  /\ SkipSp(s, p) + 1 <= Len(s)
                  /\ Lower(s[SkipSp(s, p)]) = "and"
                  /\ IsSpace(s[SkipSp(s, p) + 1])
      at == {p \in 1..Len(s) : isAnd(p)}
  IN IF at = {} THEN <<s>>
     ELSE <<SubSeq(s, 1, Min(at) - 1)>>
            \o SplitAnd(From(s, SkipSp(s, SkipSp(s, Min(at)) + 1)))

\* the merge of the entries of the fragments, left to right; the first
\* failure is the failure of the clause
RECURSIVE MergeConditions(_, _, _)
MergeConditions(frags, context_var, query) ==
  LET Merged(r) ==
        IF IsErr(r) THEN r
        ELSE MergeConditions(Tail(frags), context_var, Update(query, r[2]))
  IN IF frags = <<>> THEN Ok(query)
     ELSE Merged(_parse_single_condition(Strip(Head(frags)), context_var))

\* _parse_where_clause(where_clause, context_var)
_parse_where_clause(where_clause, context_var) ==
  MergeConditions(SplitAnd(where_clause), context_var, EmptyObj)

(***************************************************************************)
(* Pieces of the statement regular expressions                             *)
(***************************************************************************)
Quotes == {DQ, SQ}

\* a keyword at position i, under re.IGNORECASE (ic) or not
KwAt(s, i, kw, ic) ==
  i >= 1 /\ i <= Len(s) /\ (IF ic THEN Lower(s[i]) = kw ELSE s[i] = kw)

\* KW1\s+KW2 at position i: the position of KW2, 0 if no match
Kw2At(s, i, kw1, kw2, ic) ==
  IF KwAt(s, i, kw1, ic) /\ i + 1 <= Len(s) /\ IsSpace(s[i + 1])
     /\ KwAt(s, SkipSp(s, i + 1), kw2, ic)
  THEN SkipSp(s, i + 1)
  ELSE 0

\* collection\(["']([^"']+)["']\) with the word `collection` at r:
\* <<name, position of the closing parenthesis>>, or NoMatch
CollRefAt(s, r, ic) ==
  LET e == RunEndNot(s, r + 3, Quotes) IN
  IF /\ KwAt(s, r, "collection", ic)
     /\ e + 2 <= Len(s)
     /\ s[r + 1] = "("
     /\ s[r + 2] \in Quotes
     /\ e >= r + 3
     /\ s[e + 1] \in Quotes
     /\ s[e + 2] = ")"
  THEN <<SubSeq(s, r + 3, e), e + 2>>
  ELSE NoMatch

\* db\.collection\(["']([^"']+)["']\)\.METHOD at k (re.IGNORECASE):
\* <<name, position of METHOD>>, or NoMatch
DbCallAt(s, k, method) ==
  LET Call(c) ==
        IF /\ KwAt(s, k, "db", TRUE)
           /\ k + 1 <= Len(s) /\ s[k + 1] = "."
           /\ c # NoMatch
           /\ c[2] + 2 <= Len(s)
           /\ s[c[2] + 1] = "."
           /\ KwAt(s, c[2] + 2, method, TRUE)
        THEN <<c[1], c[2] + 2>>
        ELSE NoMatch
  IN Call(IF k + 2 <= Len(s) THEN CollRefAt(s, k + 2, TRUE) ELSE NoMatch)

\* re.search of the shorthand cue db.collection("...").METHOD
DbCue(s, method) == \E k \in 1..Len(s) : DbCallAt(s, k, method) # NoMatch

\* re.search of KW1\s+KW2 under re.IGNORECASE
Kw2Cue(s, kw1, kw2) == \E k \in 1..Len(s) : Kw2At(s, k, kw1, kw2, TRUE) # 0

\* index of the last occurrence of character c at or after i, 0 if none
LastIndexFrom(s, c, i) ==
  LET at == {j \in i..Len(s) : s[j] = c} IN IF at = {} THEN 0 ELSE Max(at)

\* DBCALL\((.*)\): <<name, group>> of the leftmost match, or NoMatch
DbGreedySearch(s, method) ==
  LET Group(m, z) ==
        IF m # NoMatch /\ m[2] + 1 <= Len(s) /\ s[m[2] + 1] = "(" /\ z # 0
        THEN <<m[1], SubSeq(s, m[2] + 2, z - 1)>>
        ELSE NoMatch
      at(m) == Group(m, IF m = NoMatch THEN 0
                        ELSE LastIndexFrom(s, ")", m[2] + 2))
  IN Leftmost([k \in 1..Len(s) |-> at(DbCallAt(s, k, method))])

\* DBCALL\((.*?)\): <<name, group>> of the leftmost match, or NoMatch
DbLazySearch(s, method) ==
  LET Group(m, z) ==
        IF m # NoMatch /\ m[2] + 1 <= Len(s) /\ s[m[2] + 1] = "(" /\ z # 0
        THEN <<m[1], SubSeq(s, m[2] + 2, z - 1)>>
        ELSE NoMatch
      at(m) == Group(m, IF m = NoMatch THEN 0
                        ELSE IndexFrom(s, ")", m[2] + 2))
  IN Leftmost([k \in 1..Len(s) |-> at(DbCallAt(s, k, method))])

\* DBCALL\((.*?),\s*(.*)\): <<name, group 2, group 3>>, or NoMatch.
\* Group 2 ends at the first comma, group 3 at the last parenthesis.
DbPairSearch(s, method) ==
  LET Group(m, c, z) ==
        IF m # NoMatch /\ m[2] + 1 <= Len(s) /\ s[m[2] + 1] = "("
           /\ c # 0 /\ z > c
        THEN <<m[1], SubSeq(s, m[2] + 2, c - 1),
               SubSeq(s, SkipSp(s, c + 1), z - 1)>>
        ELSE NoMatch
      at(m) == Group(m, IF m = NoMatch THEN 0 ELSE IndexFrom(s, ",", m[2] + 2),
                        IF m = NoMatch THEN 0
                        ELSE LastIndexFrom(s, ")", m[2] + 2))
  IN Leftmost([k \in 1..Len(s) |-> at(DbCallAt(s, k, method))])

\* \s+(.*?)TAIL right after a keyword that ends at position a: the blanks
\* are greedy, the group is lazy.  T(s, p) is the match of TAIL at p.
\* <<group, T's result>>, or NoMatch
LazyGroup(s, a, T(_, _)) ==
  LET Shortest(ts) ==
        LET maxw == SkipSp(s, a + 1) - (a + 1)
            ends(w) == {p \in (a + 1 + w)..(Len(s) + 1) : ts[p] # NoMatch}
            ws == {w \in 1..maxw : ends(w) # {}}
        IN IF ws = {} THEN NoMatch
           ELSE <<SubSeq(s, a + 1 + Max(ws), Min(ends(Max(ws))) - 1),
                  ts[Min(ends(Max(ws)))]>>
  IN Shortest([p \in (a + 2)..(Len(s) + 1) |-> T(s, p)])

\* (.*?)TAIL from position g on: <<group, T's result>>, or NoMatch
LazyFrom(s, g, T(_, _)) ==
  LET Shortest(ts) ==
        LET ends == {p \in g..(Len(s) + 1) : ts[p] # NoMatch} IN
        IF ends = {} THEN NoMatch
        ELSE <<SubSeq(s, g, Min(ends) - 1), ts[Min(ends)]>>
  IN Shortest([p \in g..(Len(s) + 1) |-> T(s, p)])

\* (?:where|in\s+collection) at p, under re.IGNORECASE
TermAt(s, p) ==
  IF KwAt(s, p, "where", TRUE) \/ Kw2At(s, p, "in", "collection", TRUE) # 0
  THEN <<p>> ELSE NoMatch

\* (?:in\s+collection|\Z) at p, under re.IGNORECASE
InCollOrEndAt(s, p) ==
  IF p = Len(s) + 1 \/ Kw2At(s, p, "in", "collection", TRUE) # 0
  THEN <<p>> ELSE NoMatch

\* re.search(r'in\s+collection\(["\']([^"\']+)["\']\)', s): the name as
\* <<name>>, or NoMatch (no re.IGNORECASE here)
CollectionSearch(s) ==
  LET at(r) == IF r = 0 THEN NoMatch ELSE CollRefAt(s, r, FALSE)
      Name(m) == IF m = NoMatch THEN NoMatch ELSE <<m[1]>>
  IN Name(Leftmost([k \in 1..Len(s) |->
                      at(Kw2At(s, k, "in", "collection", FALSE))]))

\* re.search(r'where\s+(.*?)(?:in\s+collection|\Z)', s, IGNORECASE|DOTALL):
\* the stripped group as <<clause>>, or NoMatch
WhereInSearch(s) ==
  LET at(k) == IF KwAt(s, k, "where", TRUE)
               THEN LazyGroup(s, k, InCollOrEndAt) ELSE NoMatch
      Stripped(m) == IF m = NoMatch THEN NoMatch ELSE <<Strip(m[1])>>
  IN Stripped(Leftmost([k \in 1..Len(s) |-> at(k)]))

\* re.search(r'\$(\w+)(?:/([^/]+))?', target_path): <<variable, field or <<>>>>
PathPartsSearch(t) ==
  LET ok == {i \in 1..(Len(t) - 1) : t[i] = "$" /\ IsWord(t[i + 1])} IN
  IF ok = {} THEN NoMatch
  ELSE LET i == Min(ok)
           e == RunEndNot(t, i + 3, {"/"})
       IN IF i + 2 <= Len(t) /\ t[i + 2] = "/" /\ e >= i + 3
          THEN <<t[i + 1], SubSeq(t, i + 3, e)>>
          ELSE <<t[i + 1], <<>>>>

(***************************************************************************)
(* Markup-to-Document Converter.  etree.fromstring is the XML parser of    *)
(* the lxml library; it is modelled as a recursive-descent reading of      *)
(* elements, attributes and text.  An element is                           *)
(* <<tag, attributes, text, children, tail>>: tag a symbol, attributes a   *)
(* sequence of <<name, value symbols>>, text the symbols before the first  *)
(* child (element.text), children a sequence of elements, tail the symbols *)
(* between the end of the element and the next tag (element.tail).         *)
(***************************************************************************)
RECURSIVE XAttrs(_, _, _)
RECURSIVE XElem(_, _)
RECURSIVE XContent(_, _, _, _, _)

\* the attributes of a start tag from position i on:
\* <<"ok", attributes, position of the tag's > or />>
XAttrs(s, i, acc) ==
  LET j == SkipSp(s, i) IN
  IF j > Len(s) THEN NoParse
  ELSE IF s[j] \in {">", "/"} THEN <<"ok", acc, j>>
  ELSE IF j = i \/ ~IsWord(s[j]) THEN NoParse
  ELSE LET q == SkipSp(s, j + 1)
           o == SkipSp(s, q + 1)
           c == IF o <= Len(s) THEN IndexFrom(s, s[o], o + 1) ELSE 0
       IN IF q > Len(s) \/ s[q] # "=" \/ o > Len(s) \/ s[o] \notin Quotes
             \/ c = 0 \/ \E a \in 1..Len(acc) : acc[a][1] = s[j]
          THEN NoParse
          ELSE XAttrs(s, c + 1, Append(acc, <<s[j], SubSeq(s, o + 1, c - 1)>>))

\* the content of the element el from position i on, up to its end tag
XContent(s, i, el, text, children) ==
  LET lt == IndexFrom(s, "<", i) IN
  IF lt = 0 \/ lt + 1 > Len(s) THEN NoParse
  ELSE LET text2 == IF children = <<>> THEN text \o SubSeq(s, i, lt - 1)
                    ELSE text
           children2 ==
             IF children = <<>> THEN children
             ELSE [children EXCEPT ![Len(children)][5] = SubSeq(s, i, lt - 1)]
       IN IF s[lt + 1] = "/"
          THEN LET g == SkipSp(s, lt + 3) IN
               IF lt + 2 <= Len(s) /\ s[lt + 2] = el[1]
                  /\ g <= Len(s) /\ s[g] = ">"
               THEN <<"ok", <<el[1], el[2], text2, children2, <<>>>>, g + 1>>
               ELSE NoParse
          ELSE LET c == XElem(s, lt) IN
               IF c[1] # "ok" THEN NoParse
               ELSE XContent(s, c[3], el, text2, Append(children2, c[2]))

\* an element that starts with the < at position i
XElem(s, i) ==
  LET Tag(a) ==
        IF a[1] # "ok" THEN NoParse
        ELSE IF s[a[3]] = "/"
        THEN IF a[3] + 1 <= Len(s) /\ s[a[3] + 1] = ">"
             THEN <<"ok", <<s[i + 1], a[2], <<>>, <<>>, <<>>>>, a[3] + 2>>
             ELSE NoParse
        ELSE XContent(s, a[3] + 1, <<s[i + 1], a[2]>>, <<>>, <<>>)
  IN IF i + 1 > Len(s) \/ s[i] # "<" \/ ~IsWord(s[i + 1]) THEN NoParse
     ELSE Tag(XAttrs(s, i + 2, <<>>))

\* etree.fromstring(text): Ok(element), or XMLSyntaxError
XMLSyntaxError == Err("XMLSyntaxError")
etree_fromstring(s) ==
  LET Whole(e) ==
        IF e[1] = "ok" /\ SkipSp(s, e[3]) = Len(s) + 1 THEN Ok(e[2])
        ELSE XMLSyntaxError
  IN Whole(XElem(s, SkipSp(s, 1)))

\* re.sub(r'<\?xml[^>]+\?>', '', s): the XML declaration is dropped
RECURSIVE SubXmlDecl(_)
SubXmlDecl(s) ==
  IF s = <<>> THEN <<>>
  ELSE LET e == RunEndNot(s, 4, {">"}) IN
       IF MatchAt(s, 1, <<"<", "?", "xml">>) /\ e + 1 <= Len(s)
          /\ e >= 5 /\ s[e] = "?"
       THEN SubXmlDecl(From(s, e + 2))
       ELSE <<Head(s)>> \o SubXmlDecl(Tail(s))

RECURSIVE _xml_to_json(_)
RECURSIVE XmlChildren(_, _)

\* the loop with a list that is nested, and not extended, by a later
\* occurrence of its tag
XmlChildrenNested(children, result) ==
  IF children = <<>> THEN result
  ELSE LET child_dict == _xml_to_json(Head(children))
           tag == <<Head(children)[1]>>
       IN XmlChildren(Tail(children),
            IF HasKey(result, tag)
            THEN Put(result, tag, VArr(<<Get(result, tag), child_dict>>))
            ELSE Put(result, tag, child_dict))

\* the loop over the child elements of _xml_to_json
XmlChildren(children, result) ==
  IF children = <<>> THEN result
  ELSE LET child_dict == _xml_to_json(Head(children))
           tag == <<Head(children)[1]>>
       IN XmlChildren(Tail(children),
            IF HasKey(result, tag)
            THEN IF Get(result, tag)[1] = "arr"
                 THEN Put(result, tag,
                          VArr(Append(Get(result, tag)[2], child_dict)))
                 ELSE Put(result, tag, VArr(<<Get(result, tag), child_dict>>))
            ELSE Put(result, tag, child_dict))

\* _xml_to_json(element)
_xml_to_json(element) ==
  LET attrs == PutAll(EmptyObj,
                 [a \in 1..Len(element[2]) |->
                    <<<<"@", element[2][a][1]>>, VStr(element[2][a][2])>>])
      WithText(result, text) ==
        IF text # <<>>
        THEN IF result # EmptyObj
             THEN Put(result, <<"#", "text">>, VStr(text))
             ELSE VStr(text)
        ELSE result
  IN WithText(XmlChildren(element[4], attrs), Strip(element[3]))

(***************************************************************************)
(* Statement Parsers.  A canonical operation is a dict, built in the key   *)
(* order of the source.  The failures are the ValueErrors of the source,   *)
(* named by their messages.                                                *)
(***************************************************************************)
K(word) == <<word>>
Operation(collection, operation) ==
  VObj(<< <<K("collection"), VStr(collection)>>,
          <<K("operation"), VStr(<<operation>>)>> >>)

BadInsertJSON == "Could not parse insert document JSON"
BadInsert == "Could not process insert operation"
UnsupportedInsert == "Unsupported insert syntax"
BadUpdateJSON == "Could not parse update JSON"
NoCollectionReplace == "Collection name not found in replace statement"
NoCollectionUpdate == "Collection name not found in update statement"
NoCollectionDelete == "Collection name not found in delete statement"
BadTargetPath == "Could not parse target path"
UnsupportedUpdate == "Unsupported update syntax"
BadDeleteJSON == "Could not parse delete query JSON"
UnsupportedDelete == "Unsupported delete syntax"
BadQueryJSON == "Could not parse query JSON"
UnsupportedRead == "Unsupported read syntax"
UnsupportedStatement == "Unsupported XQuery CRUD syntax"

\* \s+into\s+collection\(["']([^"']+)["']\) at p: <<name>>, or NoMatch
IntoAt(s, p) ==
  LET Name(c) == IF p <= Len(s) /\ IsSpace(s[p]) /\ c # NoMatch
                 THEN <<c[1]>> ELSE NoMatch
      Ref(r) == IF r = 0 THEN NoMatch ELSE CollRefAt(s, r, TRUE)
  IN Name(Ref(Kw2At(s, SkipSp(s, p), "into", "collection", TRUE)))

\* re.search of insert\s+node\s+(.*?)\s+into\s+collection\(...\):
\* <<group 1, group 2>>, or NoMatch
InsertNodeSearch(s) ==
  LET at(a) == IF a = 0 THEN NoMatch ELSE LazyGroup(s, a, IntoAt)
      Groups(m) == IF m = NoMatch THEN NoMatch ELSE <<m[1], m[2][1]>>
  IN Groups(Leftmost([k \in 1..Len(s) |->
                        at(Kw2At(s, k, "insert", "node", TRUE))]))

\* _parse_insert(xquery_string)
_parse_insert(xquery_string) ==
  LET Inserted(collection, doc, failure) ==
        IF IsErr(doc) THEN Err(failure)
        ELSE Ok(Put(Operation(collection, "insertOne"), K("document"), doc[2]))
      Converted(t) == IF IsErr(t) THEN t ELSE Ok(_xml_to_json(t[2]))
      Content(xml_content) ==
        IF /\ xml_content # <<>>
           /\ Head(xml_content) = "{"
           /\ xml_content[Len(xml_content)] = "}"
        THEN json_loads(xml_content)
        ELSE Converted(etree_fromstring(SubXmlDecl(xml_content)))
      Shorthand(m, rest) ==
        IF m # NoMatch
        THEN Inserted(m[1],
               json_loads(SubTrailingComma(
                            SubTrailingComma(Strip(m[2]), "}"), "]")),
               BadInsertJSON)
        ELSE rest
      Hierarchical(m, rest) ==
        IF m # NoMatch THEN Inserted(m[2], Content(Strip(m[1])), BadInsert)
        ELSE rest
  IN Shorthand(DbGreedySearch(xquery_string, "insert"),
     Hierarchical(InsertNodeSearch(xquery_string),
     Err(UnsupportedInsert)))

\* \s+with\s+(.*?)(?:where|in\s+collection) at p: <<group>>, or NoMatch
WithAt(s, p) ==
  LET Group(m) == IF m = NoMatch THEN NoMatch ELSE <<m[1]>>
      q == SkipSp(s, p)
  IN IF p <= Len(s) /\ IsSpace(s[p]) /\ KwAt(s, q, "with", TRUE)
     THEN Group(LazyGroup(s, q, TermAt))
     ELSE NoMatch

\* re.search of KW1\s+node\s+(.*?)\s+with\s+(.*?)(?:where|in\s+collection)
\* for replace node (KW1 = replace, KW2 = node) and update value:
\* <<group 1, group 2>>, or NoMatch
WithSearch(s, kw1, kw2) ==
  LET at(a) == IF a = 0 THEN NoMatch ELSE LazyGroup(s, a, WithAt)
      Groups(m) == IF m = NoMatch THEN NoMatch ELSE <<m[1], m[2][1]>>
  IN Groups(Leftmost([k \in 1..Len(s) |-> at(Kw2At(s, k, kw1, kw2, TRUE))]))

\* re.search of delete\s+node\s+(.*?)(?:where|in\s+collection):
\* <<group 1>>, or NoMatch
DeleteNodeSearch(s) ==
  LET at(a) == IF a = 0 THEN NoMatch ELSE LazyGroup(s, a, TermAt)
      Group(m) == IF m = NoMatch THEN NoMatch ELSE <<m[1]>>
  IN Group(Leftmost([k \in 1..Len(s) |->
                       at(Kw2At(s, k, "delete", "node", TRUE))]))

\* the filter of a hierarchical update or delete: Ok({}) without a condition
\* clause, else what the Predicate Engine makes of the clause
WhereQuery(where_match, var_name) ==
  IF where_match # NoMatch /\ where_match[1] # <<>>
  THEN _parse_where_clause(where_match[1], var_name)
  ELSE Ok(EmptyObj)

\* {"$set": {field_path: value}}, or {"$set": value} without a field path
SetUpdate(field_path, value) ==
  IF field_path # <<>>
  THEN Entry(<<"$", "set">>, Entry(field_path, value))
  ELSE Entry(<<"$", "set">>, value)

\* UpdateOperation with the single-match operation name
UpdateOneOperation(collection, query, update) ==
  Put(Put(Operation(collection, "updateOne"), K("filter"), query),
      K("update"), update)

\* {collection, operation: updateMany, filter, update}
UpdateOperation(collection, query, update) ==
  Put(Put(Operation(collection, "updateMany"), K("filter"), query),
      K("update"), update)

\* re.search(r'"\$set"|"\$inc"|"\$push"', update_json)
HasModifierText(s) ==
  \E i \in 1..Len(s) : \E m \in {"set", "inc", "push"} :
    MatchAt(s, i, <<DQ, "$", m, DQ>>)

\* the replace-node and update-value forms after their regular expression
\* has matched: target_path and the value of the replacement
XQueryUpdate(xquery_string, target_path, update_value, NoCollection) ==
  LET Updated(collection_match, path_parts, query) ==
        IF collection_match = NoMatch THEN Err(NoCollection)
        ELSE IF path_parts = NoMatch THEN Err(BadTargetPath)
        ELSE IF IsErr(query) THEN query
        ELSE Ok(UpdateOperation(collection_match[1], query[2],
                                SetUpdate(path_parts[2], update_value)))
      Filtered(collection_match, path_parts) ==
        Updated(collection_match, path_parts,
                WhereQuery(WhereInSearch(xquery_string), path_parts[1]))
  IN Filtered(CollectionSearch(xquery_string), PathPartsSearch(target_path))

\* ReplacementValue with null for a literal that does not parse
ReplacementOrNull(replacement) ==
  LET Parsed(r) == IF IsOk(r) THEN r[2] ELSE VNull IN
  IF /\ replacement # <<>>
     /\ Head(replacement) = "{"
     /\ replacement[Len(replacement)] = "}"
  THEN Parsed(json_loads(replacement))
  ELSE VStr(replacement)

\* the replacement of replace node: a brace-delimited literal that parses,
\* else the text itself
ReplacementValue(replacement) ==
  LET Parsed(r) == IF IsOk(r) THEN r[2] ELSE VStr(replacement) IN
  IF /\ replacement # <<>>
     /\ Head(replacement) = "{"
     /\ replacement[Len(replacement)] = "}"
  THEN Parsed(json_loads(replacement))
  ELSE VStr(replacement)

\* the new value of update value: a double-quoted string, an integer, a
\* float, else the text itself
NewValue(new_value) ==
  LET n == Len(new_value) IN
  IF n >= 1 /\ new_value[1] = DQ /\ new_value[n] = DQ
  THEN VStr(SubSeq(new_value, 2, n - 1))
  ELSE IF n = 1 /\ new_value[1] \in DigitWords THEN VInt(int(new_value[1]))
  ELSE IF n = 3 /\ new_value[1] \in DigitWords /\ new_value[2] = "."
          /\ new_value[3] \in DigitWords
  THEN VFloat(float(new_value[1], new_value[3]))
  ELSE VStr(new_value)

\* _parse_update(xquery_string)
_parse_update(xquery_string) ==
  LET Modifier(update_json, parsed) ==
        IF Strip(update_json) # <<>>
           /\ Head(Strip(update_json)) = "{"
           /\ HasModifierText(update_json)
        THEN parsed[2]
        ELSE Entry(<<"$", "set">>, parsed[2])
      Loaded(collection, query, update_json, parsed) ==
        IF IsErr(query) \/ IsErr(parsed) THEN Err(BadUpdateJSON)
        ELSE Ok(UpdateOperation(collection, query[2],
                                Modifier(update_json, parsed)))
      Pair(collection, query_json, update_json) ==
        Loaded(collection, json_loads(query_json), update_json,
               json_loads(update_json))
      Shorthand(m, rest) ==
        IF m # NoMatch
        THEN Pair(m[1], SubTrailingComma(Strip(m[2]), "}"),
                  SubTrailingComma(Strip(m[3]), "}"))
        ELSE rest
      Replaced(m, rest) ==
        IF m # NoMatch
        THEN XQueryUpdate(xquery_string, Strip(m[1]),
                          ReplacementValue(Strip(m[2])), NoCollectionReplace)
        ELSE rest
      Revalued(m, rest) ==
        IF m # NoMatch
        THEN XQueryUpdate(xquery_string, Strip(m[1]),
                          NewValue(Strip(m[2])), NoCollectionUpdate)
        ELSE rest
  IN Shorthand(DbPairSearch(xquery_string, "update"),
     Replaced(WithSearch(xquery_string, "replace", "node"),
     Revalued(WithSearch(xquery_string, "update", "value"),
     Err(UnsupportedUpdate))))

\* _parse_delete(xquery_string)
_parse_delete(xquery_string) ==
  LET Deleted(collection, query, failure) ==
        IF IsErr(query) THEN failure
        ELSE Ok(Put(Operation(collection, "deleteMany"), K("filter"),
                    query[2]))
      Shorthand(m, rest) ==
        IF m # NoMatch
        THEN Deleted(m[1],
                     json_loads(SubTrailingComma(Strip(m[2]), "}")),
                     Err(BadDeleteJSON))
        ELSE rest
      Checked(collection_match, path_parts, query) ==
        IF collection_match = NoMatch THEN Err(NoCollectionDelete)
        ELSE IF path_parts = NoMatch THEN Err(BadTargetPath)
        ELSE Deleted(collection_match[1], query, query)
      Filtered(collection_match, path_parts) ==
        Checked(collection_match, path_parts,
                WhereQuery(WhereInSearch(xquery_string), path_parts[1]))
      Removed(m, rest) ==
        IF m # NoMatch
        THEN Filtered(CollectionSearch(xquery_string),
                      PathPartsSearch(Strip(m[1])))
        ELSE rest
  IN Shorthand(DbGreedySearch(xquery_string, "remove"),
     Removed(DeleteNodeSearch(xquery_string),
     Err(UnsupportedDelete)))

\* re.split(r',\s*', clause)
RECURSIVE SplitComma(_)
SplitComma(s) ==
  LET c == IndexFrom(s, ",", 1) IN
  IF c = 0 THEN <<s>>
  ELSE <<SubSeq(s, 1, c - 1)>> \o SplitComma(From(s, SkipSp(s, c + 1)))

\* the loop of _parse_order_by over the parts of the clause
RECURSIVE OrderParts(_, _, _)
OrderParts(parts, context_var, sort_spec) ==
  IF parts = <<>> THEN sort_spec
  ELSE LET part == Head(parts)
           n == Len(part)
           desc == n >= 1 /\ Lower(part[n]) = "descending"
           asc == n >= 1 /\ Lower(part[n]) = "ascending"
           \* re.sub(r'\s+descending$', '', part): needs a blank before it
           cut == IF (desc \/ asc) /\ n >= 2 /\ IsSpace(part[n - 1])
                  THEN RStripSet(SubSeq(part, 1, n - 1), {SP})
                  ELSE part
           field == _parse_path(Strip(cut), context_var)
           direction == IF desc THEN VInt(<<"-", "1">>) ELSE VInt(<<"1">>)
       IN OrderParts(Tail(parts), context_var, Put(sort_spec, field, direction))

\* _parse_order_by(order_by_clause, context_var)
_parse_order_by(order_by_clause, context_var) ==
  OrderParts(SplitComma(order_by_clause), context_var, EmptyObj)

\* re.findall(r'\$' + context_var + r'/([^/\s,]+)', clause), from position i
RECURSIVE FindFields(_, _, _)
FindFields(s, i, context_var) ==
  IF i > Len(s) THEN <<>>
  ELSE LET e == RunEnd(s, i + 3, {"/", ","}) IN
       IF MatchAt(s, i, <<"$", context_var, "/">>) /\ e >= i + 3
       THEN <<SubSeq(s, i + 3, e)>> \o FindFields(s, e + 1, context_var)
       ELSE FindFields(s, i + 1, context_var)

\* _parse_return_clause(return_clause, context_var)
_parse_return_clause(return_clause, context_var) ==
  LET fields == FindFields(return_clause, 1, context_var)
      projection == PutAll(EmptyObj,
                      [i \in 1..Len(fields) |-> <<fields[i], VInt(<<"1">>)>>])
  IN IF fields # <<>> /\ ~HasKey(projection, <<"_id">>)
     THEN Put(projection, <<"_id">>, VInt(<<"0">>))
     ELSE projection

\* for\s+\$(\w+)\s+in\s+collection at k: <<variable, position of the word
\* collection>>, the position 0 if no match
ForAt(s, k) ==
  LET d == SkipSp(s, k + 1) IN
  IF /\ KwAt(s, k, "for", TRUE)
     /\ d > k + 1 /\ d + 2 <= Len(s)
     /\ s[d] = "$" /\ IsWord(s[d + 1]) /\ IsSpace(s[d + 2])
  THEN <<s[d + 1], Kw2At(s, SkipSp(s, d + 2), "in", "collection", TRUE)>>
  ELSE <<"", 0>>

\* re.search of for\s+\$(\w+)\s+in\s+collection\(["']([^"']+)["']\)(.*):
\* <<variable, collection, rest>>, or NoMatch
ForSearch(s) ==
  LET Groups(v, c) == IF c = NoMatch THEN NoMatch
                      ELSE <<v, c[1], From(s, c[2] + 1)>>
      at(f) == Groups(f[1], IF f[2] = 0 THEN NoMatch
                            ELSE CollRefAt(s, f[2], TRUE))
  IN Leftmost([k \in 1..Len(s) |-> at(ForAt(s, k))])

\* the cue of the iteration clause: for\s+\$\w+\s+in\s+collection
ForCue(s) == \E k \in 1..Len(s) : ForAt(s, k)[2] # 0

\* (?:order\s+by|\Z) at p
OrderOrEndAt(s, p) ==
  IF p = Len(s) + 1 \/ Kw2At(s, p, "order", "by", TRUE) # 0
  THEN <<p>> ELSE NoMatch

\* (?:return|\Z) at p
ReturnOrEndAt(s, p) ==
  IF p = Len(s) + 1 \/ KwAt(s, p, "return", TRUE) THEN <<p>> ELSE NoMatch

\* re.search(r'where\s+(.*?)(?:order\s+by|\Z)', rest): <<clause>> or NoMatch
WhereOrderSearch(s) ==
  LET at(k) == IF KwAt(s, k, "where", TRUE)
               THEN LazyGroup(s, k, OrderOrEndAt) ELSE NoMatch
      Stripped(m) == IF m = NoMatch THEN NoMatch ELSE <<Strip(m[1])>>
  IN Stripped(Leftmost([k \in 1..Len(s) |-> at(k)]))

\* re.search(r'order\s+by\s+(.*?)(?:return|\Z)', rest): <<clause>> or NoMatch
OrderBySearch(s) ==
  LET at(a) == IF a = 0 THEN NoMatch ELSE LazyGroup(s, a, ReturnOrEndAt)
      Stripped(m) == IF m = NoMatch THEN NoMatch ELSE <<Strip(m[1])>>
  IN Stripped(Leftmost([k \in 1..Len(s) |->
                          at(Kw2At(s, k, "order", "by", TRUE))]))

\* re.search(r'return\s+(.*)', rest): <<clause>> or NoMatch
ReturnSearch(s) ==
  LET ok == {k \in 1..(Len(s) - 1) :
               KwAt(s, k, "return", TRUE) /\ IsSpace(s[k + 1])}
  IN IF ok = {} THEN NoMatch ELSE <<Strip(From(s, Min(ok) + 1))>>

\* _parse_read(xquery_string): the operation or the failure
_parse_read(xquery_string) ==
  LET Found(collection, query) ==
        Put(Operation(collection, "find"), K("filter"), query[2])
      Parsed(collection, query) ==
        IF IsErr(query) THEN Err(BadQueryJSON) ELSE Ok(Found(collection, query))
      Loaded(collection, query_json) ==
        IF query_json = <<>> THEN Ok(Found(collection, Ok(EmptyObj)))
        ELSE Parsed(collection, json_loads(query_json))
      Shorthand(m, rest) ==
        IF m # NoMatch THEN Loaded(m[1], SubTrailingComma(Strip(m[2]), "}"))
        ELSE rest
      Sorted(result, var_name, order_by_match) ==
        IF order_by_match # NoMatch
           /\ _parse_order_by(order_by_match[1], var_name) # EmptyObj
        THEN Put(result, K("sort"),
                 _parse_order_by(order_by_match[1], var_name))
        ELSE result
      Projected(result, var_name, return_match) ==
        IF return_match # NoMatch
           /\ _parse_return_clause(return_match[1], var_name) # EmptyObj
        THEN Put(result, K("projection"),
                 _parse_return_clause(return_match[1], var_name))
        ELSE result
      Clauses(collection, var_name, rest_of_query, query) ==
        IF IsErr(query) THEN query
        ELSE Ok(Projected(Sorted(Found(collection, query), var_name,
                                 OrderBySearch(rest_of_query)),
                          var_name, ReturnSearch(rest_of_query)))
      Iteration(var_name, collection, rest_of_query) ==
        Clauses(collection, var_name, rest_of_query,
                WhereQuery(WhereOrderSearch(rest_of_query), var_name))
      Hierarchical(m, rest) ==
        IF m # NoMatch THEN Iteration(m[1], m[2], Strip(m[3])) ELSE rest
  IN Shorthand(DbLazySearch(xquery_string, "find"),
     Hierarchical(ForSearch(xquery_string),
     Err(UnsupportedRead)))

\* the write of _parse_read to self.var_mappings: the table after the call
ReadBinding(var_mappings, xquery_string) ==
  LET Bound(mongo_style_match, xquery_style_match) ==
        IF mongo_style_match = NoMatch /\ xquery_style_match # NoMatch
        THEN Put(var_mappings, <<xquery_style_match[1]>>,
                 VStr(xquery_style_match[2]))
        ELSE var_mappings
  IN Bound(DbLazySearch(xquery_string, "find"), ForSearch(xquery_string))

(***************************************************************************)
(* Dialect Router                                                          *)
(***************************************************************************)
InsertCue(s) == Kw2Cue(s, "insert", "node") \/ DbCue(s, "insert")
UpdateCue(s) ==
  Kw2Cue(s, "replace", "node") \/ Kw2Cue(s, "update", "value")
    \/ DbCue(s, "update")
DeleteCue(s) == Kw2Cue(s, "delete", "node") \/ DbCue(s, "remove")
ReadCue(s) == ForCue(s) \/ DbCue(s, "find")

\* Route with the Update cue tested before the Insert cue
RouteUpdateFirst(s) ==
  IF UpdateCue(s) THEN "_parse_update"
  ELSE IF InsertCue(s) THEN "_parse_insert"
  ELSE IF DeleteCue(s) THEN "_parse_delete"
  ELSE IF ReadCue(s) THEN "_parse_read"
  ELSE "raise"

\* Route with the Read parser as the fallback of a statement without a cue
RouteReadFallback(s) ==
  IF InsertCue(s) THEN "_parse_insert"
  ELSE IF UpdateCue(s) THEN "_parse_update"
  ELSE IF DeleteCue(s) THEN "_parse_delete"
  ELSE "_parse_read"

\* the branch parse_xquery takes on the (stripped) statement: the name of
\* the parser it calls, or "raise"
Route(s) ==
  IF InsertCue(s) THEN "_parse_insert"
  ELSE IF UpdateCue(s) THEN "_parse_update"
  ELSE IF DeleteCue(s) THEN "_parse_delete"
  ELSE IF ReadCue(s) THEN "_parse_read"
  ELSE "raise"

(***************************************************************************)
(* json.dumps (without the indentation of indent=2)                        *)
(***************************************************************************)
\* the escapes of a string body
JEscape(s) ==
  Flatten([i \in 1..Len(s) |->
             IF s[i] \in {DQ, "\\"} THEN <<"\\", s[i]>> ELSE <<s[i]>>])

\* the items of a sequence joined with ", "
RECURSIVE JoinComma(_)
JoinComma(items) ==
  IF items = <<>> THEN <<>>
  ELSE IF Len(items) = 1 THEN items[1]
  ELSE items[1] \o <<",", SP>> \o JoinComma(Tail(items))

RECURSIVE json_dumps(_)
json_dumps(v) ==
  IF v[1] = "str" THEN <<DQ>> \o JEscape(v[2]) \o <<DQ>>
  ELSE IF v[1] = "null" THEN <<"null">>
  ELSE IF v[1] = "arr"
  THEN <<"[">> \o JoinComma([i \in 1..Len(v[2]) |-> json_dumps(v[2][i])])
         \o <<"]">>
  ELSE IF v[1] = "obj"
  THEN <<"{">> \o JoinComma([i \in 1..Len(v[2]) |->
                   <<DQ>> \o JEscape(v[2][i][1]) \o <<DQ, ":", SP>>
                     \o json_dumps(v[2][i][2])])
         \o <<"}">>
  ELSE v[2]

(***************************************************************************)
(* src/xquery_to_mongo.py                                                  *)
(***************************************************************************)
\* eval(text) of Python.  A text that is a literal of dicts, lists, strings
\* and numbers evaluates to its value; any other text is run as code by the
\* interpreter, which the model records as <<"exec", text>>.
RECURSIVE HasKeyword(_)
HasKeyword(v) ==
  IF v[1] \in {"bool", "null"} THEN TRUE
  ELSE IF v[1] = "arr" THEN \E i \in 1..Len(v[2]) : HasKeyword(v[2][i])
  ELSE IF v[1] = "obj" THEN \E i \in 1..Len(v[2]) : HasKeyword(v[2][i][2])
  ELSE FALSE
py_eval(s) ==
  LET Literal(v) == IF IsOk(v) /\ ~HasKeyword(v[2]) THEN v ELSE <<"exec", s>>
  IN Literal(json_loads(s))

\* "xdmp:NAME" in xquery
XdmpCue(s, name) ==
  \E k \in 1..Len(s) : MatchAt(s, k, <<"xdmp", ":">> \o name)

\* re.search(r'xdmp:document-insert\("(.+?)", (.+)\)', xquery):
\* <<key, document text>>, or NoMatch
XdmpInsertSearch(s) ==
  LET Groups(a, cs) ==
        IF cs = {} THEN NoMatch
        ELSE <<SubSeq(s, a, Min(cs) - 1),
               SubSeq(s, Min(cs) + 3, LastIndexFrom(s, ")", Min(cs) + 4) - 1)>>
      at(k) ==
        IF MatchAt(s, k, <<"xdmp", ":", "document", "-", "insert", "(", DQ>>)
        THEN Groups(k + 7, {c \in (k + 8)..Len(s) :
                              /\ MatchAt(s, c, <<DQ, ",", SP>>)
                              /\ LastIndexFrom(s, ")", c + 4) # 0})
        ELSE NoMatch
  IN Leftmost([k \in 1..Len(s) |-> at(k)])

\* re.search(r'xdmp:document-NAME\("(.+?)"\)', xquery): <<key>>, or NoMatch
XdmpKeySearch(s, name) ==
  LET Group(a, cs) ==
        IF cs = {} THEN NoMatch ELSE <<SubSeq(s, a, Min(cs) - 1)>>
      at(k) ==
        IF MatchAt(s, k, <<"xdmp", ":", "document", "-", name, "(", DQ>>)
        THEN Group(k + 7, {c \in (k + 8)..Len(s) : MatchAt(s, c, <<DQ, ")">>)})
        ELSE NoMatch
  IN Leftmost([k \in 1..Len(s) |-> at(k)])

\* re.search(r'xdmp:node-replace\(doc\("(.+?)"\)//(.+?), (.+)\)', xquery):
\* <<key, field, value text>>, or NoMatch
XdmpReplaceSearch(s) ==
  LET ds(c) == {d \in (c + 5)..Len(s) :
                  /\ MatchAt(s, d, <<",", SP>>)
                  /\ LastIndexFrom(s, ")", d + 3) # 0}
      Groups(a, c, d) ==
        <<SubSeq(s, a, c - 1), SubSeq(s, c + 4, d - 1),
          SubSeq(s, d + 2, LastIndexFrom(s, ")", d + 3) - 1)>>
      First(a, cs) ==
        IF cs = {} THEN NoMatch ELSE Groups(a, Min(cs), Min(ds(Min(cs))))
      at(k) ==
        IF MatchAt(s, k, <<"xdmp", ":", "node", "-", "replace", "(",
                           "doc", "(", DQ>>)
        THEN First(k + 9, {c \in (k + 10)..Len(s) :
                             MatchAt(s, c, <<DQ, ")", "/", "/">>) /\ ds(c) # {}})
        ELSE NoMatch
  IN Leftmost([k \in 1..Len(s) |-> at(k)])

UnsupportedXdmp ==
  Ok(Entry(K("error"),
           VStr(<<"Unsupported", SP, "XQuery", SP, "statement">>)))

\* {"operation": op, "query": {"_id": doc_id}}
XdmpQuery(op, doc_id) ==
  VObj(<< <<K("operation"), VStr(<<op>>)>>,
          <<K("query"), Entry(<<"_id">>, VStr(doc_id))>> >>)

\* InsertData without the assignment of the identifier field
InsertDataAsIs(document, doc_id) ==
  VObj(<< <<K("operation"), VStr(<<"insert">>)>>, <<K("data"), document>> >>)

\* document["_id"] = doc_id; return {"operation": "insert", "data": document}
InsertData(document, doc_id) ==
  VObj(<< <<K("operation"), VStr(<<"insert">>)>>,
          <<K("data"), Put(document, <<"_id">>, VStr(doc_id))>> >>)

\* convert_xquery_to_mongo(xquery)
convert_xquery_to_mongo(xquery) ==
  LET Data(doc_id, document) ==
        IF ~IsOk(document) THEN document
        ELSE IF ~IsObj(document[2]) THEN Err("TypeError")
        ELSE Ok(InsertData(document[2], doc_id))
      Inserted(match) ==
        IF match = NoMatch THEN UnsupportedXdmp
        ELSE Data(match[1], py_eval(match[2]))
      ByKey(op, match) ==
        IF match = NoMatch THEN UnsupportedXdmp
        ELSE Ok(XdmpQuery(op, match[1]))
      Assigned(doc_id, field, new_value) ==
        IF ~IsOk(new_value) THEN new_value
        ELSE Ok(Put(XdmpQuery("update", doc_id), K("update"),
                    Entry(<<"$", "set">>, Entry(field, new_value[2]))))
      Replaced(match) ==
        IF match = NoMatch THEN UnsupportedXdmp
        ELSE Assigned(match[1], match[2], py_eval(match[3]))
  IN IF XdmpCue(xquery, <<"document", "-", "insert">>)
     THEN Inserted(XdmpInsertSearch(xquery))
     ELSE IF XdmpCue(xquery, <<"document", "-", "get">>)
     THEN ByKey("find", XdmpKeySearch(xquery, "get"))
     ELSE IF XdmpCue(xquery, <<"node", "-", "replace">>)
     THEN Replaced(XdmpReplaceSearch(xquery))
     ELSE IF XdmpCue(xquery, <<"document", "-", "delete">>)
     THEN ByKey("delete", XdmpKeySearch(xquery, "delete"))
     ELSE UnsupportedXdmp

(***************************************************************************)
(* Inputs.  Statements are written as the source's examples write them;    *)
(* literals are produced from values by json_dumps, so that what a parser  *)
(* returns can be compared with the value the text was written from.       *)
(***************************************************************************)
MaxLines == 2
MaxKeys == 2
MaxFrags == 2
MaxSegs == 2
MaxKids == 3

Q(name) == <<DQ>> \o name \o <<DQ>>
Users == <<"users">>

\* db.collection("c").method(args)
DbStmt(c, method, args) ==
  <<"db", ".", "collection", "(">> \o Q(c) \o <<")", ".", method, "(">>
    \o args \o <<")">>
\* in collection("c")
InColl(c) == <<"in", SP, "collection", "(">> \o Q(c) \o <<")">>
\* the optional clause ` kw text`
Clause(kw, text) == IF text = <<>> THEN <<>> ELSE <<SP>> \o kw \o <<SP>> \o text
\* insert node content into collection("c")
InsertNode(content, c) ==
  <<"insert", SP, "node", SP>> \o content
    \o <<SP, "into", SP, "collection", "(">> \o Q(c) \o <<")">>
\* replace node target with replacement [where w] in collection("c")
ReplaceNode(target, replacement, w, c) ==
  <<"replace", SP, "node", SP>> \o target \o <<SP, "with", SP>> \o replacement
    \o Clause(<<"where">>, w) \o <<SP>> \o InColl(c)
\* update value target with value [where w] in collection("c")
UpdateValue(target, value, w, c) ==
  <<"update", SP, "value", SP>> \o target \o <<SP, "with", SP>> \o value
    \o Clause(<<"where">>, w) \o <<SP>> \o InColl(c)
\* delete node target [where w] in collection("c")
DeleteNode(target, w, c) ==
  <<"delete", SP, "node", SP>> \o target \o Clause(<<"where">>, w)
    \o <<SP>> \o InColl(c)
\* for $v in collection("c") [where w] [order by o] [return r]
ForStmt(v, c, w, o, r) ==
  <<"for", SP, "$", v, SP>> \o InColl(c) \o Clause(<<"where">>, w)
    \o Clause(<<"order", SP, "by">>, o) \o Clause(<<"return">>, r)

\* the variables and the field names of the inputs
Vars == {"u", "x"}
FieldNames == <<"age", "name", "tags", "city">>

\* a path $v/seg/...; P(v, <<>>) is the bare variable
RECURSIVE Slashed(_)
Slashed(segs) ==
  IF segs = <<>> THEN <<>> ELSE <<"/", Head(segs)>> \o Slashed(Tail(segs))
P(v, segs) == <<"$", v>> \o Slashed(segs)
\* the segments of a path joined with dots
RECURSIVE Dotted(_)
Dotted(segs) ==
  IF Len(segs) <= 1 THEN segs ELSE <<Head(segs), ".">> \o Dotted(Tail(segs))

\* the sequences of at most n segments
SegSeqs(n) == UNION {[1..k -> {"age", "name"}] : k \in 0..n}

\* values and literal texts ------------------------------------------------
StrBodies == {<<"x">>, <<"x", ",", "}", "y">>, <<"p", ",", SP, "]">>}
DocValues ==
  {VStr(b) : b \in StrBodies}
    \cup {VInt(<<"18">>), VBool(<<"true">>),
          VArr(<<VInt(<<"1">>), VInt(<<"2">>)>>),
          Entry(<<"k">>, VStr(<<"v">>))}
FilterValues == {VInt(<<"18">>), VStr(<<"x">>)}

\* the dicts with the first n field names as keys and values from vals
DictsOf(n, vals) ==
  {VObj([i \in 1..n |-> <<<<FieldNames[i]>>, f[i]>>]) : f \in [1..n -> vals]}
Docs == UNION {DictsOf(n, DocValues) : n \in 0..MaxKeys}
Filters == UNION {DictsOf(n, FilterValues) : n \in 0..MaxKeys}

\* the modifier keys the shorthand update recognises
Modifiers == {"set", "inc", "push"}
SmallDoc == Entry(<<"c">>, VInt(<<"3">>))
Updates ==
  {Entry(<<"$", m>>, SmallDoc) : m \in Modifiers \cup {"unset"}}
    \cup {SmallDoc,
          Entry(<<"c">>, VStr(<<"$", "set">>)),
          Entry(<<"a">>, Entry(<<"$", "inc">>, VInt(<<"1">>))),
          VObj(<< <<<<"c">>, VInt(<<"3">>)>>, <<<<"$", "set">>, SmallDoc>> >>)}

\* condition fragments ------------------------------------------------------
\* the comparison operators, written with punctuation and as keywords
SymOps == {<<"=">>, <<"!", "=">>, <<">">>, <<">", "=">>, <<"<">>, <<"<", "=">>}
KwOps == {<<"eq">>, <<"ne">>, <<"gt">>, <<"ge">>, <<"lt">>, <<"le">>}
\* path op value, spaced as in the examples of the source
Cmp(path, op, value) == path \o <<SP>> \o op \o <<SP>> \o value
\* name(path, "arg") and name(path)
Call2(name, path, arg) ==
  name \o <<"(">> \o path \o <<",", SP>> \o arg \o <<")">>
Call1(name, path) == name \o <<"(">> \o path \o <<")">>
NotExists(path) == <<"not", "(">> \o Call1(<<"exists">>, path) \o <<")">>
StringFns == {<<"contains">>, <<"starts", "-", "with">>, <<"ends", "-", "with">>}

\* the literal tokens of the fragments, each with the value it denotes
Literals ==
  {<<<<"18">>, VInt(<<"18">>)>>, <<Q(<<"Jo">>), VStr(<<"Jo">>)>>,
   <<<<"1", ".", "5">>, VFloat(<<"1", ".", "5">>)>>}
ValueTexts == {l[1] : l \in Literals}

\* the fragments of the nine catalogued shapes over the path p
ShapeFragments(p) ==
  {Cmp(p, op, v) : op \in SymOps \cup KwOps, v \in ValueTexts}
    \cup {Call2(f, p, Q(<<"Jo">>)) : f \in StringFns}
    \cup {Call1(<<"exists">>, p), NotExists(p)}

\* the fragments a condition clause is joined from: a path and an operator,
\* compared with 18
FragSpecs ==
  {<<"age">>, <<"name">>, <<"age", "name">>}
    \X {<<"=">>, <<"gt">>, <<"!", "=">>}
Fragment(f) == Cmp(P("u", f[1]), f[2], <<"18">>)

\* fragments joined with ` and `
RECURSIVE JoinAnd(_)
JoinAnd(fs) ==
  IF fs = <<>> THEN <<>>
  ELSE IF Len(fs) = 1 THEN fs[1]
  ELSE fs[1] \o <<SP, "and", SP>> \o JoinAnd(Tail(fs))

\* the clauses of 1..n fragments, by the fragments they are joined from
SpecSeqs(n) == UNION {[1..k -> FragSpecs] : k \in 1..n}
ClauseOf == [fs \in SpecSeqs(MaxFrags) |->
               JoinAnd([i \in 1..Len(fs) |-> Fragment(fs[i])])]

\* the inputs of the direct calls ------------------------------------------
ConditionInputs ==
  UNION {ShapeFragments(P(v, segs)) : v \in Vars, segs \in SegSeqs(MaxSegs)}
WhereInputs == {ClauseOf[fs] : fs \in SpecSeqs(MaxFrags)}
PathInputs ==
  {P(v, segs) : v \in Vars, segs \in SegSeqs(MaxSegs)}
    \cup {Tail(Slashed(segs)) : segs \in SegSeqs(MaxSegs) \ {<<>>}}
    \cup {Tail(P("u", segs)) : segs \in SegSeqs(1)}

\* the tokens handed to _parse_value: quoted strings, runs of digits,
\* decimal numbers, keywords in several letter cases and other texts
QuotedTokens ==
  {Q(<<"x">>), <<SQ, "x", SQ>>, <<SP>> \o Q(<<"x", SP, "y">>) \o <<SP>>,
   Q(<<"18">>), <<SQ, "true", SQ>>, Q(<<"1", ".", "5">>),
   <<SQ, "a", DQ, "b", SQ>>}
IntegerTokens == {<<"18">>, <<"007">>, <<"0">>}
FloatTokens ==
  {<<"1", ".", "5">>, <<"1", ".", "50">>, <<"30", ".", "0">>,
   <<"0", ".", "00001">>, <<"0", ".", "000015">>}
BooleanTokens == {<<"true">>, <<"TRUE">>, <<"False">>}
NullTokens == {<<"null">>, <<"None">>, <<"NONE">>}
TextTokens ==
  {<<SP, "f", "(", "x", ")", SP>>, <<"abc">>, <<"1", ".">>, <<DQ, "x", SQ>>,
   <<"count", "(", "$", "u", "/", "tags", ")">>, <<"18", SP, "x">>}
ValueInputs ==
  QuotedTokens \cup IntegerTokens \cup FloatTokens \cup BooleanTokens
    \cup NullTokens \cup TextTokens

\* the ordering clauses handed to _parse_order_by: a key is a field of
\* $u and a marker; the keys are separated by a comma with or without
\* blanks around it
Markers == {"", "descending", "ascending", "DESCENDING"}
Separators == {<<",">>, <<",", SP>>, <<SP, ",", SP>>}
OrderKey(k) ==
  P("u", <<k[1]>>) \o (IF k[2] = "" THEN <<>> ELSE <<SP, k[2]>>)
RECURSIVE JoinKeys(_, _)
JoinKeys(ks, sep) ==
  IF Len(ks) = 1 THEN OrderKey(ks[1])
  ELSE OrderKey(ks[1]) \o sep \o JoinKeys(Tail(ks), sep)
OrderSpecs ==
  UNION {[1..n -> {"age", "name"} \X Markers] : n \in 1..MaxKeys}
OrderInputs == {JoinKeys(ks, sep) : ks \in OrderSpecs, sep \in Separators}

\* the return clauses handed to _parse_return_clause: references to fields
\* of $u written as a list, as a parenthesised sequence, or enclosed in an
\* element constructor
ReturnShapes == {"list", "sequence", "element"}
ReturnSpecs == UNION {[1..n -> {"name", "age", "_id"}] : n \in 1..MaxKeys}
RECURSIVE Braced(_)
Braced(fs) ==
  IF fs = <<>> THEN <<>>
  ELSE <<"{">> \o P("u", <<Head(fs)>>) \o <<"}">> \o Braced(Tail(fs))
ReturnText(fs, shape) ==
  LET List == JoinComma([i \in 1..Len(fs) |-> P("u", <<fs[i]>>)]) IN
  CASE shape = "list" -> List
    [] shape = "sequence" -> <<"(">> \o List \o <<")">>
    [] shape = "element" ->
         <<"<", "r", ">">> \o Braced(fs) \o <<"<", "/", "r", ">">>
ReturnInputs == {ReturnText(fs, s) : fs \in ReturnSpecs, s \in ReturnShapes}

\* the statements of the single-shot caller (src/check.py) -------------------
Markups ==
  {<<"<", "user", ">", "<", "name", ">", "John", "<", "/", "name", ">",
     "<", "age", ">", "30", "<", "/", "age", ">", "<", "/", "user", ">">>,
   <<"<", "user", SP, "id", "=", DQ, "5", DQ, ">", "<", "tag", ">", "a",
     "<", "/", "tag", ">", "<", "tag", ">", "b", "<", "/", "tag", ">", "hi",
     "<", "/", "user", ">">>,
   <<"<", "note", ">", "hi", "<", "/", "note", ">">>,
   <<"<", "a", ">", "<", "b", ">", "<", "/", "a", ">">>}

\* elements with up to MaxKids children, the tags of the children drawn
\* from two names so that a tag occurs once, twice or more often; the i-th
\* child carries the i-th text, as its own text or in a child of its own
KidTexts == <<"x", "y", "z", "w", "v">>
KidTags == {"tag", "item"}
KidForms == {"text", "nested", "mixed"}
Kid(form, t, i) ==
  IF form = "text" \/ (form = "mixed" /\ i % 2 = 1)
  THEN <<"<", t, ">", KidTexts[i], "<", "/", t, ">">>
  ELSE <<"<", t, ">", "<", "a", ">", KidTexts[i], "<", "/", "a", ">",
         "<", "a", "/", ">", "<", "/", t, ">">>
RECURSIVE Kids(_, _, _)
Kids(form, ts, i) ==
  IF i > Len(ts) THEN <<>> ELSE Kid(form, ts[i], i) \o Kids(form, ts, i + 1)
Parent(attr, form, ts) ==
  <<"<", "user">> \o (IF attr THEN <<SP, "id", "=", DQ, "5", DQ>> ELSE <<>>)
    \o <<">">> \o Kids(form, ts, 1) \o <<"<", "/", "user", ">">>
KidTagSeqs == UNION {[1..n -> KidTags] : n \in 0..MaxKids}
\* elements with text: none, blank or non-blank before the children, and
\* none or some after the one child
Leads == {<<>>, <<SP>>, <<SP, "hi", SP>>}
Trails == {<<>>, <<"yo">>}
Texted(attr, lead, kid, trail) ==
  <<"<", "user">> \o (IF attr THEN <<SP, "id", "=", DQ, "5", DQ>> ELSE <<>>)
    \o <<">">> \o lead
    \o (IF kid THEN <<"<", "tag", ">", "a", "<", "/", "tag", ">">> ELSE <<>>)
    \o trail \o <<"<", "/", "user", ">">>
TextMarkups ==
  {Texted(attr, lead, kid, trail) :
     attr \in BOOLEAN, lead \in Leads, kid \in BOOLEAN, trail \in Trails}
XmlInputs ==
  {Parent(attr, form, ts) :
     attr \in BOOLEAN, form \in KidForms, ts \in KidTagSeqs}
    \cup TextMarkups

ShorthandInsert(d) == DbStmt(Users, "insert", json_dumps(d))
ShorthandUpdate(f, u) ==
  DbStmt(Users, "update", json_dumps(f) \o <<",", SP>> \o json_dumps(u))
ShorthandInserts == {ShorthandInsert(d) : d \in Docs}
ShorthandUpdates == {ShorthandUpdate(f, u) : f \in Filters, u \in Updates}
ShorthandRemoves == {DbStmt(Users, "remove", json_dumps(f)) : f \in Filters}
ShorthandFinds ==
  {DbStmt(Users, "find", a) : a \in {<<>>} \cup {json_dumps(f) : f \in Filters}}
\* the document literals of insert node, one with an _id of its own
NodeDocs == DictsOf(1, DocValues) \cup {Entry(<<"_id">>, VStr(<<"z">>))}
NodeInserts ==
  {InsertNode(m, Users) : m \in Markups \cup TextMarkups}
    \cup {InsertNode(json_dumps(d), Users) : d \in NodeDocs}

\* the condition clauses of the hierarchical statements; <<>> is no clause
StmtClauses ==
  {<<>>, Cmp(P("u", <<"age">>), <<"eq">>, <<"18">>),
   Cmp(P("u", <<"age">>), <<">">>, <<"18">>) \o <<SP, "and", SP>>
     \o Cmp(P("u", <<"name">>), <<"=">>, Q(<<"Jo">>)),
   Call1(<<"exists">>, P("u", <<"name">>))}
\* replacements: a string, a document literal, a string that holds the word
\* where, a number
Replacements ==
  {Q(<<"x">>), json_dumps(SmallDoc), <<"18">>,
   Q(<<"see", SP, "where", SP>> \o Cmp(P("u", <<"age">>), <<"=">>, <<"18">>))}
Targets == {P("u", segs) : segs \in SegSeqs(MaxSegs)}

NodeReplaces ==
  {ReplaceNode(t, Q(<<"x">>), <<>>, Users) : t \in Targets}
    \cup {ReplaceNode(P("u", <<"name">>), r, w, Users) :
            r \in Replacements, w \in StmtClauses}
ValueUpdates ==
  {UpdateValue(t, Q(<<"x">>), <<>>, Users) : t \in Targets}
    \cup {UpdateValue(P("u", <<"name">>), r, w, Users) :
            r \in Replacements, w \in StmtClauses}
NodeDeletes ==
  {DeleteNode(t, w, Users) : t \in {P("u", <<>>), P("u", <<"name">>)},
                             w \in StmtClauses}
OrderClauses ==
  {<<>>, P("u", <<"name">>) \o <<SP, "descending">>,
   P("u", <<"age">>) \o <<",", SP>> \o P("u", <<"name">>)
     \o <<SP, "ascending">>}
ReturnClauses == {<<>>, P("u", <<"name">>), P("u", <<>>)}
Reads ==
  {ForStmt("u", Users, w, o, r) :
     w \in StmtClauses, o \in OrderClauses, r \in ReturnClauses}
    \cup {ForStmt("u", Users, ClauseOf[fs], <<>>, <<>>) : fs \in SpecSeqs(2)}
    \cup {DeleteNode(P("u", <<>>), ClauseOf[fs], Users) : fs \in SpecSeqs(2)}

\* the hierarchical Reads written without an ordering clause; among the
\* condition and return clauses are two that hold the words `order by`
\* inside a quoted string
NoOrderWheres ==
  StmtClauses
    \cup {Cmp(P("u", <<"name">>), <<"=">>, Q(<<"order", SP, "by", SP, "age">>))}
NoOrderReturns ==
  ReturnClauses
    \cup {<<"concat", "(">> \o Q(<<"order", SP, "by", SP>>) \o <<",", SP>>
            \o P("u", <<"name">>) \o <<")">>}
NoOrderReads ==
  {ForStmt("u", Users, w, <<>>, r) : w \in NoOrderWheres, r \in NoOrderReturns}

\* hierarchical update and delete statements without the collection
\* reference, with and without a condition clause, and statements whose
\* target path names no variable
WithoutCollection(s) == SubSeq(s, 1, Len(s) - Len(InColl(Users)) - 1)
NoCollectionStatements ==
  {WithoutCollection(s) :
     s \in UNION {{ReplaceNode(P("u", <<"name">>), Q(<<"x">>), w, Users),
                   UpdateValue(P("u", <<"name">>), Q(<<"x">>), w, Users),
                   DeleteNode(P("u", <<>>), w, Users)} :
                    w \in {<<>>, Cmp(P("u", <<"age">>), <<"eq">>, <<"18">>)}}}
NoVariableTargets == {<<"name">>, <<"name", "/", "age">>}
NoVariableStatements ==
  UNION {{ReplaceNode(t, Q(<<"x">>), <<>>, Users),
          UpdateValue(t, Q(<<"x">>), <<>>, Users),
          DeleteNode(t, <<>>, Users)} : t \in NoVariableTargets}

\* statements with a brace-delimited literal that is no JSON
BadLiterals == {<<"{", "bad", "}">>, <<"{">> \o Q(<<"a">>) \o <<":", SP, "}">>}
BadShorthands(b) ==
  {DbStmt(Users, "insert", b), DbStmt(Users, "remove", b),
   DbStmt(Users, "find", b),
   DbStmt(Users, "update", b \o <<",", SP>> \o json_dumps(SmallDoc)),
   DbStmt(Users, "update", json_dumps(SmallDoc) \o <<",", SP>> \o b)}
BadReplace(b) == ReplaceNode(P("u", <<"name">>), b, <<>>, Users)
MalformedLiteralStatements ==
  UNION {BadShorthands(b) \cup {InsertNode(b, Users), BadReplace(b)} :
           b \in BadLiterals}

\* update value with each token of the value pool as its replacement
AssignStatement(token) ==
  UpdateValue(P("u", <<"name">>), Strip(token), <<>>, Users)
AssignStatements == {AssignStatement(token) : token \in ValueInputs}

\* the statements of the pool that are written without a condition clause
NoClauseStatements ==
  {ReplaceNode(t, Q(<<"x">>), <<>>, Users) : t \in Targets}
    \cup {ReplaceNode(P("u", <<"name">>), r, <<>>, Users) : r \in Replacements}
    \cup {UpdateValue(t, Q(<<"x">>), <<>>, Users) : t \in Targets}
    \cup {UpdateValue(P("u", <<"name">>), r, <<>>, Users) : r \in Replacements}
    \cup {DeleteNode(t, <<>>, Users) : t \in {P("u", <<>>), P("u", <<"name">>)}}
    \cup {ForStmt("u", Users, <<>>, o, r) :
            o \in OrderClauses, r \in ReturnClauses}
    \cup {DbStmt(Users, "find", <<>>)}

\* one statement per cue, and the statements joined from two of them, on
\* which two cues match
CueStatements ==
  {DbStmt(Users, "insert", json_dumps(SmallDoc)),
   InsertNode(json_dumps(SmallDoc), Users),
   DbStmt(Users, "update", <<"{", "}", ",", SP>> \o json_dumps(SmallDoc)),
   ReplaceNode(P("u", <<"name">>), Q(<<"x">>), <<>>, Users),
   UpdateValue(P("u", <<"name">>), <<"18">>, <<>>, Users),
   DbStmt(Users, "remove", json_dumps(SmallDoc)),
   DeleteNode(P("u", <<>>), <<>>, Users),
   DbStmt(Users, "find", json_dumps(SmallDoc)),
   ForStmt("u", Users, <<>>, <<>>, P("u", <<"name">>))}
TwoCueStatements == {a \o <<SP>> \o b : a \in CueStatements, b \in CueStatements}

\* statements on which no cue matches
NoCueStatements ==
  {<<"SELECT", SP, "name", SP, "FROM", SP, "users">>,
   <<"insert", SP, "into", SP, "users">>,
   <<"db", ".", "collection", "(", DQ, "users", DQ, ")", ".", "count", "(", ")">>,
   <<"for", SP, "u", SP, "in", SP, "collection", "(", DQ, "users", DQ, ")">>,
   <<"delete", SP, "from", SP, "users">>,
   <<SP, "node", SP>>}

Statements ==
  ShorthandInserts \cup ShorthandUpdates \cup ShorthandRemoves
    \cup ShorthandFinds \cup NodeInserts \cup NodeReplaces \cup ValueUpdates
    \cup NodeDeletes \cup Reads \cup TwoCueStatements \cup NoCueStatements
    \cup NoOrderReads \cup NoCollectionStatements \cup NoVariableStatements
    \cup MalformedLiteralStatements \cup AssignStatements

\* the lines of the batch driver's input file --------------------------------
BatchLines ==
  {<<>>, <<SP>>, <<"#", SP, "insert", SP, "node">>,
   <<"SELECT", SP, "name", SP, "FROM", SP, "users">>,
   <<SP>> \o DbStmt(Users, "find", <<>>) \o <<SP>>,
   DbStmt(Users, "insert", json_dumps(SmallDoc)),
   DbStmt(Users, "update", <<"{", "}", ",", SP, "{">>),
   DeleteNode(P("u", <<>>), Cmp(P("u", <<"age">>), <<"eq">>, <<"18">>), Users),
   ForStmt("u", Users, <<>>, <<>>, P("u", <<"name">>)),
   ForStmt("x", <<"books">>, Call1(<<"exists">>, P("x", <<"age">>)), <<>>, <<>>)}
Batches == UNION {[1..n -> BatchLines] : n \in 0..MaxLines}

\* the statements of the script of src/xquery_to_mongo.py
XdmpInsert(k, d) ==
  <<"xdmp", ":", "document", "-", "insert", "(">> \o Q(k) \o <<",", SP>>
    \o json_dumps(d) \o <<")">>
XdmpKeys == {<<"/", "books", "/", "new", ".", "xml">>, <<"k">>}
\* the dict literals of the inserts: digits, strings and dicts of them (a
\* literal with true or null is no Python literal), one with an _id of its own
XdmpDocs ==
  {EmptyObj, Entry(<<"_id">>, VStr(<<"z">>)), Entry(<<"age">>, VInt(<<"18">>)),
   Entry(<<"name">>, VStr(<<"x">>)),
   Entry(<<"tags">>, Entry(<<"k">>, VStr(<<"v">>)))}
XdmpStatements ==
  {XdmpInsert(k, d) : k \in XdmpKeys, d \in XdmpDocs}
    \cup {<<"xdmp", ":", "document", "-", op, "(">> \o Q(<<"k">>) \o <<")">> :
            op \in {"get", "delete"}}
    \cup {<<"xdmp", ":", "node", "-", "replace", "(", "doc", "(">>
            \o Q(<<"k">>) \o <<")", "/", "/", "title", ",", SP>>
            \o Q(<<"New">>) \o <<")">>,
          <<"xdmp", ":", "document", "-", "insert", "(">> \o Q(<<"k">>)
            \o <<",", SP, "[", "1", "]", ")">>,
          <<"xdmp", ":", "document", "-", "insert", "(">> \o Q(<<"k">>)
            \o <<",", SP, "load", "(", ")", ")">>,
          <<"xdmp", ":", "document", "-", "get", "(", "k", ")">>,
          <<"hello">>}

(***************************************************************************)
(* The state machine.  entry names the program or the method that is run:  *)
(*   "main"      the batch driver main() of src/conversion.py              *)
(*   "single"    one call of parse_xquery, as in src/check.py              *)
(*   "xdmp"      one call of convert_xquery_to_mongo                       *)
(*   "path", "condition", "where"   one call of _parse_path,               *)
(*               _parse_single_condition, _parse_where_clause              *)
(*   "order"     one call of _parse_order_by                               *)
(*   "projection"  one call of _parse_return_clause                        *)
(*   "value"     one call of _parse_value, and a second call on the        *)
(*               serialised form of the value the first one returned       *)
(*   "xml"       one call of _xml_to_json on the tree of a markup text     *)
(***************************************************************************)
VARIABLES
  entry,          \* the program or method under execution
  lines,          \* main: the lines of the input file not read yet
  line,           \* the current line, or the argument of the call
  context_var,    \* the context variable argument of a direct call
  xquery_string,  \* parse_xquery: the stripped statement
  pc,             \* the position in the code
  called,         \* the statement parsers parse_xquery has called
  ret,            \* what the call returned or raised
  var_mappings,   \* self.var_mappings of the converter
  out,            \* main: what was written to args.output
  err,            \* main: what was printed to sys.stderr
  typed           \* the value an earlier call of _parse_value returned

vars ==
  <<entry, lines, line, context_var, xquery_string, pc, called, ret,
    var_mappings, out, err, typed>>

None == <<"none", <<>>>>

\* the converter and the streams right after construction
Fresh ==
  /\ xquery_string = <<>>
  /\ called = <<>>
  /\ ret = None
  /\ var_mappings = EmptyObj
  /\ out = <<>>
  /\ err = <<>>
  /\ typed = None

Init ==
  /\ Fresh
  /\ \/ /\ entry = "main" /\ pc = "main"
        /\ lines \in Batches /\ line = <<>> /\ context_var = "-"
     \/ /\ entry = "single" /\ pc = "parse_xquery"
        /\ lines = <<>> /\ line \in Statements /\ context_var = "-"
     \/ /\ entry = "xdmp" /\ pc = "convert_xquery_to_mongo"
        /\ lines = <<>> /\ line \in XdmpStatements /\ context_var = "-"
     \/ /\ entry = "path" /\ pc = "_parse_path"
        /\ lines = <<>> /\ line \in PathInputs /\ context_var \in Vars
     \/ /\ entry = "condition" /\ pc = "_parse_single_condition"
        /\ lines = <<>> /\ line \in ConditionInputs /\ context_var \in Vars
     \/ /\ entry = "where" /\ pc = "_parse_where_clause"
        /\ lines = <<>> /\ line \in WhereInputs /\ context_var = "u"
     \/ /\ entry = "order" /\ pc = "_parse_order_by"
        /\ lines = <<>> /\ line \in OrderInputs /\ context_var = "u"
     \/ /\ entry = "projection" /\ pc = "_parse_return_clause"
        /\ lines = <<>> /\ line \in ReturnInputs /\ context_var = "u"
     \/ /\ entry = "value" /\ pc = "_parse_value"
        /\ lines = <<>> /\ line \in ValueInputs /\ context_var = "-"
     \/ /\ entry = "xml" /\ pc = "_xml_to_json"
        /\ lines = <<>> /\ line \in XmlInputs /\ context_var = "-"

\* main: `not line or line.startswith('#')` of the stripped line
Skipped(l) == IF Strip(l) = <<>> THEN TRUE ELSE Head(Strip(l)) = "#"

\* main: a blank line or a comment line is skipped
MainSkip ==
  /\ pc = "main" /\ lines # <<>>
  /\ Skipped(Head(lines))
  /\ line' = Strip(Head(lines))
  /\ lines' = Tail(lines)
  /\ UNCHANGED <<entry, typed, context_var, xquery_string, pc, called, ret,
                 var_mappings, out, err>>

\* main: any other line is handed to converter.parse_xquery
MainCall ==
  /\ pc = "main" /\ lines # <<>>
  /\ ~Skipped(Head(lines))
  /\ line' = Strip(Head(lines))
  /\ lines' = Tail(lines)
  /\ pc' = "parse_xquery"
  /\ called' = <<>>
  /\ ret' = None
  /\ UNCHANGED <<entry, typed, context_var, xquery_string, var_mappings, out, err>>

\* parse_xquery: strip the statement, test the cues in order and call the
\* parser of the first that matches, or raise
ParseXquery ==
  LET Branch(parser) ==
        IF parser = "raise"
        THEN pc' = "return" /\ ret' = Err(UnsupportedStatement)
        ELSE pc' = parser /\ ret' = ret
  IN /\ pc = "parse_xquery"
     /\ xquery_string' = Strip(line)
     /\ Branch(Route(Strip(line)))
     /\ UNCHANGED <<entry, typed, lines, line, context_var, called, var_mappings,
                    out, err>>

\* the call of a statement parser that leaves the converter unchanged
Parser(name, result) ==
  /\ pc = name
  /\ called' = Append(called, name)
  /\ ret' = result
  /\ pc' = "return"
  /\ UNCHANGED <<entry, typed, lines, line, context_var, xquery_string,
                 var_mappings, out, err>>

ParseInsert == Parser("_parse_insert", _parse_insert(xquery_string))
ParseUpdate == Parser("_parse_update", _parse_update(xquery_string))
ParseDelete == Parser("_parse_delete", _parse_delete(xquery_string))

\* _parse_read that gives up when the table holds a binding of an
\* earlier call
ParseReadBound ==
  /\ pc = "_parse_read"
  /\ called' = Append(called, "_parse_read")
  /\ ret' = IF var_mappings = EmptyObj THEN _parse_read(xquery_string)
            ELSE Err(UnsupportedRead)
  /\ var_mappings' = ReadBinding(var_mappings, xquery_string)
  /\ pc' = "return"
  /\ UNCHANGED <<entry, typed, lines, line, context_var, xquery_string, out, err>>

\* _parse_read also records the binding of the iteration clause
ParseRead ==
  /\ pc = "_parse_read"
  /\ called' = Append(called, "_parse_read")
  /\ ret' = _parse_read(xquery_string)
  /\ var_mappings' = ReadBinding(var_mappings, xquery_string)
  /\ pc' = "return"
  /\ UNCHANGED <<entry, typed, lines, line, context_var, xquery_string, out, err>>

\* main: the result is serialised and written
MainWrite ==
  /\ entry = "main" /\ pc = "return" /\ IsOk(ret)
  /\ out' = Append(out, json_dumps(ret[2]))
  /\ pc' = "main"
  /\ UNCHANGED <<entry, typed, lines, line, context_var, xquery_string, called, ret,
                 var_mappings, err>>

\* MainExcept with the loop ended by the failure
MainExceptAborts ==
  /\ entry = "main" /\ pc = "return" /\ IsErr(ret)
  /\ err' = Append(err, <<line, ret[2][1]>>)
  /\ pc' = "main"
  /\ lines' = <<>>
  /\ UNCHANGED <<entry, typed, line, context_var, xquery_string, called, ret,
                 var_mappings, out>>

\* main: the failure is printed to stderr and the loop goes on
MainExcept ==
  /\ entry = "main" /\ pc = "return" /\ IsErr(ret)
  /\ err' = Append(err, <<line, ret[2][1]>>)
  /\ pc' = "main"
  /\ UNCHANGED <<entry, typed, lines, line, context_var, xquery_string, called, ret,
                 var_mappings, out>>

\* one call of a function that touches no state of the converter
Apply(name, result) ==
  /\ pc = name
  /\ ret' = result
  /\ pc' = "return"
  /\ UNCHANGED <<entry, typed, lines, line, context_var, xquery_string, called,
                 var_mappings, out, err>>

ConvertXqueryToMongo ==
  Apply("convert_xquery_to_mongo", convert_xquery_to_mongo(line))
ParsePath == Apply("_parse_path", Ok(VStr(_parse_path(line, context_var))))
ParseSingleCondition ==
  Apply("_parse_single_condition", _parse_single_condition(line, context_var))
ParseWhereClause ==
  Apply("_parse_where_clause", _parse_where_clause(line, context_var))
ParseValue == Apply("_parse_value", Ok(_parse_value(line)))
ParseReturnClause ==
  Apply("_parse_return_clause", Ok(_parse_return_clause(line, context_var)))
ParseOrderBy ==
  Apply("_parse_order_by", Ok(_parse_order_by(line, context_var)))

\* the tree that etree.fromstring reads from the markup is converted
XmlToJson ==
  Apply("_xml_to_json", Ok(_xml_to_json(etree_fromstring(line)[2])))

\* the value is serialised as main serialises a result (json.dumps) and
\* the text is handed to _parse_value again
Reresolve ==
  /\ entry = "value" /\ pc = "return" /\ typed = None
  /\ typed' = ret[2]
  /\ line' = json_dumps(ret[2])
  /\ pc' = "_parse_value"
  /\ ret' = None
  /\ UNCHANGED <<entry, lines, context_var, xquery_string, called,
                 var_mappings, out, err>>

Next ==
  \/ MainSkip
  \/ MainCall
  \/ ParseXquery
  \/ ParseInsert
  \/ ParseUpdate
  \/ ParseDelete
  \/ ParseRead
  \/ MainWrite
  \/ MainExcept
  \/ ConvertXqueryToMongo
  \/ ParsePath
  \/ ParseSingleCondition
  \/ ParseWhereClause
  \/ ParseValue
  \/ ParseReturnClause
  \/ ParseOrderBy
  \/ Reresolve
  \/ XmlToJson

Spec == Init /\ [][Next]_vars

\* The batch driver is a sequential program: as long as lines are left or
\* a call is under way it takes its next step.  Advance is that step as
\* far as the position in the code and the lines left are concerned.
Running == entry = "main" /\ ~(pc = "main" /\ lines = <<>>)
Advance ==
  /\ Running
  /\ pc' \in {"main", "parse_xquery", "_parse_insert", "_parse_update",
              "_parse_delete", "_parse_read", "return"}
  /\ lines' \in {lines, IF lines = <<>> THEN lines ELSE Tail(lines)}
FairSpec == Spec /\ WF_<<pc, lines>>(Advance)

(***************************************************************************)
(* Properties.  A call of parse_xquery is over in the states with          *)
(* pc = "return": line is the statement, called the parsers that were      *)
(* invoked, ret what the call returned (Ok) or raised (Err).               *)
(***************************************************************************)
Returned == entry \in {"single", "main"} /\ pc = "return"
Statement == Strip(line)
OperationName == Get(ret[2], K("operation"))
Filter == Get(ret[2], K("filter"))
Document == Get(ret[2], K("document"))

\* the cues that match the statement s
Cues(s) ==
  {c \in {"insert", "update", "delete", "read"} :
     CASE c = "insert" -> InsertCue(s)
       [] c = "update" -> UpdateCue(s)
       [] c = "delete" -> DeleteCue(s)
       [] c = "read" -> ReadCue(s)}

\* C1: the cues are tested in the order Insert, Update, Delete, Read; the
\* parser of the first cue that matches is the only parser invoked, and what
\* it returns or raises is the outcome of parse_xquery.
C1_FirstCueWins ==
  Returned =>
    /\ "insert" \in Cues(Statement) =>
         called = <<"_parse_insert">> /\ ret = _parse_insert(Statement)
    /\ "update" \in Cues(Statement) /\ "insert" \notin Cues(Statement) =>
         called = <<"_parse_update">> /\ ret = _parse_update(Statement)
    /\ "delete" \in Cues(Statement)
         /\ Cues(Statement) \cap {"insert", "update"} = {} =>
         called = <<"_parse_delete">> /\ ret = _parse_delete(Statement)
    /\ Cues(Statement) = {"read"} =>
         called = <<"_parse_read">> /\ ret = _parse_read(Statement)

\* C1 witness: two cues match, the parser of the first one has failed and
\* no other parser was tried
C1_Witness ==
  /\ Returned
  /\ Cardinality(Cues(Statement)) = 2
  /\ Len(called) = 1
  /\ IsErr(ret)

\* C2: a statement on which no cue matches fails with UnsupportedStatement;
\* no parser is invoked and no operation is returned.
C2_NoCueFails ==
  Returned /\ Cues(Statement) = {} =>
    ret = Err(UnsupportedStatement) /\ called = <<>>

\* C2 witness: `SELECT name FROM users` has been refused
C2_Witness ==
  /\ Returned
  /\ Statement = <<"SELECT", SP, "name", SP, "FROM", SP, "users">>
  /\ ret = Err(UnsupportedStatement)

\* the name of the operation the parser named p returns
NameOf(p, insert) ==
  CASE p = "_parse_insert" -> VStr(<<insert>>)
    [] p = "_parse_update" -> VStr(<<"updateMany">>)
    [] p = "_parse_delete" -> VStr(<<"deleteMany">>)
    [] p = "_parse_read" -> VStr(<<"find">>)

\* C3 (as amended): every operation parse_xquery returns has an operation
\* field equal to insertOne for an Insert, find for a Read, updateMany for an
\* Update and deleteMany for a Delete, in both dialects.
C3_OperationNames ==
  Returned /\ IsOk(ret) =>
    /\ Len(called) = 1
    /\ HasKey(ret[2], K("operation"))
    /\ OperationName = NameOf(called[1], "insertOne")

\* C3 as stated: the operation field of an Insert is insert
C3_AsStated ==
  Returned /\ IsOk(ret) =>
    /\ Len(called) = 1
    /\ HasKey(ret[2], K("operation"))
    /\ OperationName = NameOf(called[1], "insert")

\* C3 witness: a hierarchical update statement has given an updateMany
C3_Witness ==
  /\ Returned /\ IsOk(ret)
  /\ called = <<"_parse_update">>
  /\ ~DbCue(Statement, "update")
  /\ OperationName = VStr(<<"updateMany">>)

\* an update literal has a recognised modifier key as a key
HasModifierKey(u) == \E m \in Modifiers : HasKey(u, <<"$", m>>)

\* C4: db.collection(name).update(F, U) with valid literals F and U gives
\* an Update on name with filter F and with update U when U has a modifier
\* key as a key, {"$set": U} otherwise.
C4_ShorthandUpdate ==
  Returned =>
    \A f \in Filters, u \in Updates :
      Statement = ShorthandUpdate(f, u) =>
        ret = Ok(UpdateOperation(Users, f,
                   IF HasModifierKey(u) THEN u ELSE Entry(<<"$", "set">>, u)))

\* C5: db.collection(name).insert(D) with a valid document literal D gives
\* an Insert whose document is D, whatever punctuation the strings of D hold.
C5_ShorthandInsertRoundTrip ==
  Returned =>
    \A d \in Docs :
      Statement = ShorthandInsert(d) => IsOk(ret) /\ Document = d

\* the document of the insert that parse_xquery has returned is a dict with
\* the keys ks
DocumentKeys(ks) == IsOk(ret) => IsObj(Document) /\ KeySet(Document) = ks

\* C6 (as amended): the insert that convert_xquery_to_mongo makes of
\* xdmp:document-insert(key, D) carries D with the field _id set to key;
\* the inserts of parse_xquery, shorthand and hierarchical, get no added
\* identifier field: the document has the keys of the literal, and the
\* document converted from markup has no _id.
C6_Identifier ==
  /\ entry = "xdmp" /\ pc = "return" =>
       \A k \in XdmpKeys, d \in XdmpDocs :
         line = XdmpInsert(k, d) =>
           /\ IsOk(ret)
           /\ Get(ret[2], K("operation")) = VStr(<<"insert">>)
           /\ Get(ret[2], K("data")) = Put(d, <<"_id">>, VStr(k))
  /\ Returned =>
       /\ \A d \in Docs :
            Statement = ShorthandInsert(d) => DocumentKeys(KeySet(d))
       /\ \A d \in NodeDocs :
            Statement = InsertNode(json_dumps(d), Users) =>
              DocumentKeys(KeySet(d))
       /\ \A m \in Markups :
            Statement = InsertNode(m, Users) /\ IsOk(ret) /\ IsObj(Document) =>
              <<"_id">> \notin KeySet(Document)

\* C6 as stated: the document of every Insert made from a hierarchical
\* insert statement carries the field _id
C6_AsStated ==
  Returned /\ IsOk(ret) /\ called = <<"_parse_insert">>
    /\ ~DbCue(Statement, "insert") =>
    IsObj(Document) /\ <<"_id">> \in KeySet(Document)

\* C6 witness: the key has replaced the _id the literal came with
C6_Witness ==
  /\ entry = "xdmp" /\ pc = "return" /\ IsOk(ret)
  /\ line = XdmpInsert(<<"k">>, Entry(<<"_id">>, VStr(<<"z">>)))
  /\ Get(Get(ret[2], K("data")), <<"_id">>) = VStr(<<"k">>)

\* the field a path $v/segs resolves to
Field(segs) == IF segs = <<>> THEN <<"_id">> ELSE Dotted(segs)

\* the entry of a comparison of the field with the value, by its operator
Compared(field, op, value) ==
  CASE op \in {<<"=">>, <<"eq">>} -> Entry(field, value)
    [] op \in {<<"!", "=">>, <<"ne">>} -> OpEntry(field, "ne", value)
    [] op \in {<<">">>, <<"gt">>} -> OpEntry(field, "gt", value)
    [] op \in {<<">", "=">>, <<"ge">>} -> OpEntry(field, "gte", value)
    [] op \in {<<"<">>, <<"lt">>} -> OpEntry(field, "lt", value)
    [] op \in {<<"<", "=">>, <<"le">>} -> OpEntry(field, "lte", value)

\* the pattern of a string function applied to the text
Anchor(fn, text) ==
  CASE fn = <<"contains">> -> text
    [] fn = <<"starts", "-", "with">> -> <<"^">> \o text
    [] fn = <<"ends", "-", "with">> -> text \o <<"$">>

\* C7: a fragment of one of the nine catalogued shapes, over a path under
\* the context variable, gives exactly one entry: its key is the resolved
\* path, its operator the one of the shape.
C7_Catalogue ==
  entry = "condition" /\ pc = "return" =>
    \A segs \in SegSeqs(MaxSegs) :
      /\ \A op \in SymOps \cup KwOps, l \in Literals :
           line = Cmp(P(context_var, segs), op, l[1]) =>
             ret = Ok(Compared(Field(segs), op, l[2]))
      /\ \A fn \in StringFns :
           line = Call2(fn, P(context_var, segs), Q(<<"Jo">>)) =>
             ret = Ok(RegexEntry(Field(segs), Anchor(fn, <<"Jo">>)))
      /\ line = Call1(<<"exists">>, P(context_var, segs)) =>
           ret = Ok(OpEntry(Field(segs), "exists", VBool(<<"true">>)))
      /\ line = NotExists(P(context_var, segs)) =>
           ret = Ok(OpEntry(Field(segs), "exists", VBool(<<"false">>)))

\* the clause of the fragments fs has given the filter: one key per path,
\* with the entry of the last fragment on that path
Merged(fs, filter) ==
  LET paths == {fs[i][1] : i \in 1..Len(fs)}
      last(p) == Max({i \in 1..Len(fs) : fs[i][1] = p})
  IN /\ IsObj(filter)
     /\ KeySet(filter) = {Dotted(p) : p \in paths}
     /\ Len(filter[2]) = Cardinality(paths)
     /\ Cardinality(paths) = Len(fs) => Len(filter[2]) = Len(fs)
     /\ \A p \in paths :
          Entry(Dotted(p), Get(filter, Dotted(p)))
            = Compared(Dotted(p), fs[last(p)][2], VInt(<<"18">>))

\* C8: the filter of a clause of N fragments joined by `and` is the merge of
\* the N entries from left to right: N keys when the paths are distinct, and
\* on a path that occurs twice the entry of the later fragment.
C8_MergeLeftToRight ==
  /\ entry = "where" /\ pc = "return" =>
       \A fs \in SpecSeqs(MaxFrags) :
         line = ClauseOf[fs] => IsOk(ret) /\ Merged(fs, ret[2])
  /\ Returned =>
       \A fs \in SpecSeqs(2) :
         \/ Statement = ForStmt("u", Users, ClauseOf[fs], <<>>, <<>>)
         \/ Statement = DeleteNode(P("u", <<>>), ClauseOf[fs], Users)
         => IsOk(ret) /\ Merged(fs, Filter)

\* C8 witness: two fragments on the path age, the second has replaced the
\* first
C8_Witness ==
  /\ entry = "where" /\ pc = "return"
  /\ line = ClauseOf[<< <<<<"age">>, <<"=">>>>, <<<<"age">>, <<"gt">>>> >>]
  /\ ret = Ok(OpEntry(<<"age">>, "gt", VInt(<<"18">>)))

\* C9: a Read, a replace-node Update, an assign-value Update or a
\* delete-node statement without a condition clause, and a shorthand find
\* without an argument, give the empty filter.
C9_EmptyFilter ==
  Returned /\ IsOk(ret) /\ Statement \in NoClauseStatements =>
    Filter = EmptyObj

\* the path with every slash turned into a dot
SlashesToDots(path) ==
  [i \in 1..Len(path) |-> IF path[i] = "/" THEN "." ELSE path[i]]

\* C10 (as amended): _parse_path(p, v) never fails; it gives the segments
\* joined with dots when p is $v/segments, _id when p is $v, and on every
\* other p (a path under another variable, a path without the $v prefix)
\* p itself with its slashes turned into dots.
C10_PathResolver ==
  entry = "path" /\ pc = "return" =>
    IF \E segs \in SegSeqs(MaxSegs) : line = P(context_var, segs)
    THEN \A segs \in SegSeqs(MaxSegs) :
           line = P(context_var, segs) => ret = Ok(VStr(Field(segs)))
    ELSE ret = Ok(VStr(SlashesToDots(line)))

\* C10 as stated: a path of another shape fails with MalformedPath
C10_AsStated ==
  entry = "path" /\ pc = "return" =>
    IF \E segs \in SegSeqs(MaxSegs) : line = P(context_var, segs)
    THEN \A segs \in SegSeqs(MaxSegs) :
           line = P(context_var, segs) => ret = Ok(VStr(Field(segs)))
    ELSE ret = Err("MalformedPath")

\* C10 witness: a path under the variable x, resolved for the context
\* variable u, has come back as the field $x.name
C10_Witness ==
  /\ entry = "path" /\ pc = "return"
  /\ context_var = "u"
  /\ line = P("x", <<"name">>)
  /\ ret = Ok(VStr(<<"$", "x", ".", "name">>))

\* a call of _parse_value on a token of the inputs has returned
Resolved == entry = "value" /\ pc = "return" /\ typed = None

\* the float a decimal number of the inputs stands for, as repr writes it
ReprOf(token) ==
  CASE token \in {<<"1", ".", "5">>, <<"1", ".", "50">>} -> <<"1", ".", "5">>
    [] token = <<"30", ".", "0">> -> <<"30", ".", "0">>
    [] token = <<"0", ".", "00001">> -> <<"1e", "-", "05">>
    [] token = <<"0", ".", "000015">> -> <<"1", ".", "5e", "-", "05">>

\* C11: _parse_value classifies a token by the first rule that applies:
\* quoted gives the string without the quotes (whatever the quotes
\* enclose), all digits an integer, digits.digits a float, true/false in
\* any letter case a boolean, null/none in any letter case null, and any
\* other token, a function call included, its trimmed text.
C11_Classification ==
  Resolved =>
    LET t == Strip(line) IN
    /\ line \in QuotedTokens => ret = Ok(VStr(SubSeq(t, 2, Len(t) - 1)))
    /\ line \in IntegerTokens =>
         /\ ret[2][1] = "int"
         /\ DigitTable[ret[2][2][1]][1] = DigitTable[t[1]][1]
         /\ DigitTable[ret[2][2][1]][2] = NumDigits(DigitTable[t[1]][1])
    /\ line \in FloatTokens => ret = Ok(VFloat(ReprOf(t)))
    /\ line \in BooleanTokens =>
         ret = Ok(VBool(IF t[1] \in {"true", "TRUE"} THEN <<"true">>
                        ELSE <<"false">>))
    /\ line \in NullTokens => ret = Ok(VNull)
    /\ line \in TextTokens => ret = Ok(VStr(t))

\* C11 witness: the quoted digits "18" have come back as a string, not as
\* an integer
C11_Witness ==
  /\ Resolved
  /\ line = Q(<<"18">>)
  /\ ret = Ok(VStr(<<"18">>))

\* C12: _parse_value applied to the canonical string form of a value it
\* has returned gives a value of the same type, equal to that value.
C12_RoundTrip ==
  entry = "value" /\ pc = "return" /\ typed # None => ret = Ok(typed)

\* the sort specification of the keys ks: the fields in the order of
\* their first occurrence, each with the direction of its last occurrence
Sorted(ks, sort) ==
  LET fields == {ks[i][1] : i \in 1..Len(ks)}
      first(f) == Min({i \in 1..Len(ks) : ks[i][1] = f})
      last(f) == Max({i \in 1..Len(ks) : ks[i][1] = f})
      Direction(k) ==
        IF k[2] \in {"descending", "DESCENDING"} THEN VInt(<<"-", "1">>)
        ELSE VInt(<<"1">>)
  IN /\ IsObj(sort)
     /\ Len(sort[2]) = Cardinality(fields)
     /\ KeySet(sort) = {<<f>> : f \in fields}
     /\ \A f \in fields : Get(sort, <<f>>) = Direction(ks[last(f)])
     /\ \A i, j \in 1..Len(sort[2]) :
          i < j => first(sort[2][i][1][1]) < first(sort[2][j][1][1])

\* C13: _parse_order_by maps a comma-separated ordering clause to a
\* field-to-direction mapping in clause order: -1 for a field followed by
\* the descending marker, 1 for any other; no marker is part of a field
\* name; of a field that occurs twice the last direction is kept.
C13_OrderBy ==
  entry = "order" /\ pc = "return" =>
    \A ks \in OrderSpecs, sep \in Separators :
      line = JoinKeys(ks, sep) => IsOk(ret) /\ Sorted(ks, ret[2])

\* C14: a hierarchical Read written without an ordering clause gives an
\* operation without a sort key, whatever its condition clause and its
\* return clause contain.
C14_NoSort ==
  Returned /\ IsOk(ret) /\ Statement \in NoOrderReads =>
    ~HasKey(ret[2], K("sort"))

\* the projection of the referenced fields fs: every field 1, and _id 0
\* unless it is one of them
Projected(fs, projection) ==
  LET fields == {fs[i] : i \in 1..Len(fs)} IN
  /\ IsObj(projection)
  /\ KeySet(projection) = {<<f>> : f \in fields \cup {"_id"}}
  /\ \A f \in fields : Get(projection, <<f>>) = VInt(<<"1">>)
  /\ "_id" \notin fields => Get(projection, <<"_id">>) = VInt(<<"0">>)

\* C15: for a return clause that references fields $v/f of the bound
\* variable, the projection maps every referenced field to 1 and _id to 0,
\* unless _id is referenced itself: then _id maps to 1.
C15_Projection ==
  entry = "projection" /\ pc = "return" =>
    \A fs \in ReturnSpecs, s \in ReturnShapes :
      line = ReturnText(fs, s) => IsOk(ret) /\ Projected(fs, ret[2])

\* the update sets the value at the field path of the segments segs, or
\* is the value itself under $set when there are none
SetsAt(update, segs, value) ==
  update = Entry(<<"$", "set">>,
                 IF segs = <<>> THEN value ELSE Entry(Dotted(segs), value))

\* C16: in the replace-node and assign-value forms the update is
\* {"$set": {P: value}} with P the segments of the target path after the
\* context variable joined with dots, and {"$set": value} for the bare
\* context variable.
C16_SetUpdate ==
  Returned =>
    \A segs \in SegSeqs(MaxSegs) :
      /\ Statement = ReplaceNode(P("u", segs), Q(<<"x">>), <<>>, Users) =>
           /\ IsOk(ret)
           /\ SetsAt(Get(ret[2], K("update")), segs,
                     ReplacementValue(Q(<<"x">>)))
      /\ Statement = UpdateValue(P("u", segs), Q(<<"x">>), <<>>, Users) =>
           /\ IsOk(ret)
           /\ SetsAt(Get(ret[2], K("update")), segs, NewValue(Q(<<"x">>)))

\* the failures for a missing collection reference
MissingCollection ==
  {Err(NoCollectionReplace), Err(NoCollectionUpdate), Err(NoCollectionDelete)}

\* C17: a replace-node, assign-value or delete-node statement without an
\* `in collection(...)` reference fails with the missing-collection error,
\* one whose target path is no $variable path with the malformed-path
\* error; no operation is returned.
C17_Failures ==
  Returned =>
    /\ Statement \in NoCollectionStatements => ret \in MissingCollection
    /\ Statement \in NoVariableStatements => ret = Err(BadTargetPath)

\* the failures for a literal that does not parse
MalformedLiteral ==
  {Err(BadInsertJSON), Err(BadInsert), Err(BadUpdateJSON), Err(BadDeleteJSON),
   Err(BadQueryJSON)}

\* C18 (as amended): a statement whose insert document or whose shorthand
\* filter or modifier argument does not parse fails and returns no
\* operation; a brace-delimited replacement of a replace-node update that
\* does not parse is kept: the operation is returned with the unparsed
\* text as the value set.
C18_MalformedLiteral ==
  Returned =>
    \A b \in BadLiterals :
      /\ Statement \in BadShorthands(b) \cup {InsertNode(b, Users)} =>
           ret \in MalformedLiteral
      /\ Statement = BadReplace(b) =>
           ret = Ok(UpdateOperation(Users, EmptyObj,
                                    SetUpdate(<<"name">>, VStr(b))))

\* C18 as stated: every statement with a literal that does not parse fails
C18_AsStated ==
  Returned /\ Statement \in MalformedLiteralStatements => IsErr(ret)

\* C18 witness: replace node with the replacement {bad} has returned an
\* update that sets name to the text {bad}
C18_Witness ==
  /\ Returned
  /\ Statement = BadReplace(<<"{", "bad", "}">>)
  /\ IsOk(ret)
  /\ Get(Get(Get(ret[2], K("update")), <<"$", "set">>), <<"name">>)
       = VStr(<<"{", "bad", "}">>)

\* one step of the batch driver: at the head of the loop the next line is
\* taken, in order, and is skipped when it is blank or a comment; during
\* the call nothing is read or written; when the call is over either the
\* serialised operation is written, and nothing is logged, or the failure
\* is logged, and nothing is written, and the loop goes on
BatchStep ==
  entry = "main" =>
    \/ /\ pc = "main" /\ lines # <<>>
       /\ lines' = Tail(lines)
       /\ line' = Strip(Head(lines))
       /\ out' = out /\ err' = err
       /\ pc' = IF line' = <<>> THEN "main"
                ELSE IF line'[1] = "#" THEN "main"
                ELSE "parse_xquery"
    \/ /\ pc \notin {"main", "return"}
       /\ lines' = lines /\ out' = out /\ err' = err
    \/ /\ pc = "return" /\ pc' = "main" /\ lines' = lines
       /\ \/ /\ IsOk(ret)
             /\ out' = Append(out, json_dumps(ret[2]))
             /\ err' = err
          \/ /\ IsErr(ret)
             /\ Len(err') = Len(err) + 1
             /\ err'[Len(err')][1] = line
             /\ out' = out

\* the driver has a step to take: a line to read, a call to make, or a
\* result or a failure to report
CanStep ==
  \/ pc = "main" /\ lines # <<>>
  \/ pc \in {"parse_xquery", "_parse_insert", "_parse_update",
              "_parse_delete", "_parse_read"}
  \/ pc = "return" /\ (IsOk(ret) \/ IsErr(ret))

\* C19: the batch driver processes its lines in order, skips blank lines
\* and lines starting with #, and for every other line either writes one
\* serialised operation or logs one failure and writes nothing; a failure
\* does not end the loop: every batch is processed to its last line.
C19_BatchDriver ==
  /\ [][BatchStep]_vars
  /\ [](Running => CanStep)
  /\ (entry = "main") ~> (pc = "main" /\ lines = <<>>)

\* C19 witness: the batch is at its end, one line has failed and a later
\* line has been written
C19_Witness ==
  /\ entry = "main" /\ pc = "main" /\ lines = <<>>
  /\ Len(err) = 1 /\ Len(out) = 1
  /\ IsOk(ret)

\* the children of the element with the tag t, in document order
TagIndexes(element, t) ==
  SelectSeq([i \in 1..Len(element[4]) |-> i],
            LAMBDA i : element[4][i][1] = t)

\* the element, and every element below it, is converted to a dict that
\* has a key for each tag of its children and no other key but the
\* attribute keys and the text key; the value of a tag of one child is the
\* conversion of the child, the value of a tag of k >= 2 children is the
\* sequence of the k conversions in document order
RECURSIVE KeyedByTag(_, _)
KeyedByTag(element, conv) ==
  LET n == Len(element[4])
      tags == {element[4][i][1] : i \in 1..n}
      At(idx) ==
        IF Len(idx) = 1 THEN _xml_to_json(element[4][idx[1]])
        ELSE VArr([j \in 1..Len(idx) |-> _xml_to_json(element[4][idx[j]])])
  IN /\ n > 0 =>
          /\ IsObj(conv)
          /\ \A t \in tags :
               /\ HasKey(conv, <<t>>)
               /\ Get(conv, <<t>>) = At(TagIndexes(element, t))
          /\ \A k \in KeySet(conv) :
               \/ Len(k) = 1 /\ k[1] \in tags
               \/ k[1] \in {"@", "#"}
     /\ \A i \in 1..n :
          KeyedByTag(element[4][i], _xml_to_json(element[4][i]))

\* C20: _xml_to_json keys each child element by its tag: a tag that occurs
\* once among the children of an element maps to the conversion of that
\* child, a tag that occurs k >= 2 times maps to the sequence of exactly
\* the k conversions, in document order.
C20_KeyedByTag ==
  (entry = "xml" /\ pc = "return") =>
    KeyedByTag(etree_fromstring(line)[2], ret[2])

\* C20 witness: the children are tag, item, tag: item maps to the text of
\* the second child, tag to the texts of the first and the third
C20_Witness ==
  /\ entry = "xml" /\ pc = "return"
  /\ line = Parent(FALSE, "text", <<"tag", "item", "tag">>)
  /\ ret[2] = VObj(<<<<<<"tag">>, VArr(<<VStr(<<"x">>), VStr(<<"z">>)>>)>>,
                     <<<<"item">>, VStr(<<"y">>)>>>>)

\* the text that stands directly in the element: before its first child
\* and after each of its children
RECURSIVE Tails(_)
Tails(children) ==
  IF children = <<>> THEN <<>> ELSE Head(children)[5] \o Tails(Tail(children))
DirectText(element) == element[3] \o Tails(element[4])

\* the conversion of an element with non-blank direct text: the trimmed
\* text when the element has neither attributes nor children, otherwise a
\* dict with the text under #text, the attributes under @name and the
\* children under their tags
TextHeld(element, conv) ==
  LET text == Strip(DirectText(element)) IN
  text # <<>> =>
    IF element[2] = <<>> /\ element[4] = <<>> THEN conv = VStr(text)
    ELSE /\ IsObj(conv)
         /\ HasKey(conv, <<"#", "text">>)
         /\ Get(conv, <<"#", "text">>) = VStr(text)
         /\ \A a \in 1..Len(element[2]) :
              /\ HasKey(conv, <<"@", element[2][a][1]>>)
              /\ Get(conv, <<"@", element[2][a][1]>>)
                   = VStr(element[2][a][2])
         /\ \A i \in 1..Len(element[4]) : HasKey(conv, <<element[4][i][1]>>)

\* C21: for an element with non-blank direct text _xml_to_json returns
\* the trimmed text as a scalar when the element has no attributes and no
\* children, and otherwise a mapping that holds the trimmed text under
\* #text next to the @-prefixed attribute entries and the child entries;
\* an element inserted with insert node is converted this way and the
\* root tag is not a key of the document.
C21_DirectText ==
  /\ (entry = "xml" /\ pc = "return") =>
       TextHeld(etree_fromstring(line)[2], ret[2])
  /\ \A m \in Markups \cup TextMarkups :
       (/\ Returned /\ Statement = InsertNode(m, Users)
        /\ IsOk(etree_fromstring(m))) =>
         /\ IsOk(ret)
         /\ TextHeld(etree_fromstring(m)[2], Document)
         /\ IsObj(Document) =>
              ~HasKey(Document, <<etree_fromstring(m)[2][1]>>)

\* C22: no translation path executes statement text as code: payload and
\* replacement literals are only parsed as data, so every call ends with
\* a result or a failure and never with the text handed to the
\* interpreter.
C22_NoExecution == pc = "return" => ret[1] \in {"ok", "err"}

\* C23: the assign-value update form coerces its replacement token as the
\* Value Resolver does: for every replacement token the value stored
\* under $set equals _parse_value(token).
C23_AssignValue ==
  \A token \in ValueInputs :
    (Returned /\ Statement = AssignStatement(token)) =>
      /\ IsOk(ret)
      /\ Get(Get(Get(ret[2], K("update")), <<"$", "set">>), <<"name">>)
           = _parse_value(token)

\* the outcome of the Read is that of the condition clause w: its filter,
\* or its failure
FilterOf(w) ==
  LET Same(query) == IF IsOk(query) THEN IsOk(ret) /\ Filter = query[2]
                     ELSE ret = query
  IN Same(_parse_where_clause(w, "u"))

\* C24: in a hierarchical Read the condition clause ends where the
\* ordering clause or the return clause begins, whichever comes first:
\* the filter of `for $v in collection(c) where W [order by O] return R`
\* is built from W alone, and no text of the return clause is part of it.
C24_ConditionEnds ==
  \A w \in StmtClauses \ {<<>>}, o \in OrderClauses,
     r \in ReturnClauses \ {<<>>} :
    (Returned /\ Statement = ForStmt("u", Users, w, o, r)) => FilterOf(w)

\* parse_xquery(s) of a converter that has translated nothing before
FirstCall(s) ==
  LET Branch(parser) ==
        CASE parser = "_parse_insert" -> _parse_insert(s)
          [] parser = "_parse_update" -> _parse_update(s)
          [] parser = "_parse_delete" -> _parse_delete(s)
          [] parser = "_parse_read" -> _parse_read(s)
          [] OTHER -> Err(UnsupportedStatement)
  IN Branch(Route(s))

\* a step that changes the binding table is the step of _parse_read on a
\* statement with an iteration clause, and binds its variable to its
\* collection
BindingStep ==
  LET Bound(m) ==
        /\ m # NoMatch
        /\ var_mappings' = Put(var_mappings, <<m[1]>>, VStr(m[2]))
  IN var_mappings' # var_mappings =>
       pc = "_parse_read" /\ Bound(ForSearch(xquery_string))

====
